---- MODULE Spec2Model ----
(***************************************************************************)
(* Lightwall: presence-driven engagement state machine, its poller, the    *)
(* behavior director (LED/motor sequences, greeting/farewell, chat reset)  *)
(* and the conversation loop that runs beside it.                          *)
(*                                                                         *)
(* Times are wall-clock milliseconds (the code uses float seconds),        *)
(* distances are millimetres.  An optional value (Python None) is the      *)
(* empty sequence, a present value v is <<v>>.                             *)
(***************************************************************************)
EXTENDS Integers, Sequences, FiniteSets, TLC

VARIABLES
    now,                        \* time.time(), in ms
    _state,                     \* HWState._state
    radar_serial,               \* HWState.radar_serial is registered
    radar_reader,               \* HWState.radar_reader: "none" | "present"
    _latest,                    \* RadarReader._latest distance: None or <<mm>>
    _last_presence_ts,          \* EngagementController._last_presence_ts
    _thread,                    \* poller thread: "none" | "alive" | "dead"
    _stop_event,                \* EngagementController._stop_event
    seq_running,                \* role -> Sequence._running
    seq_stop_event,             \* role -> Sequence._stop_event
    seq_thread,                 \* role -> Sequence._thread: "none" | "alive" | "dead"
    seq_orphans,                \* role -> live workers no longer held in _thread
    _conversation_thread,       \* "none" | "starting" | "running"
    _conversation_stop_event,
    handler,                    \* audio callback of the current input stream
    conv_orphans,               \* callbacks of streams whose loop was abandoned
    _chat_messages,
    _quiet_until_ts,
    _system_prompt,
    tick_log,                   \* what the last completed poller tick did
    dir_call,                   \* the last invocation of _apply_led_behavior_for
    last_valid_sample_ts,       \* time of the last positive in-range sample
    fn,                         \* one call of _determine_state with its result
    _personality_cfg,           \* the personality file as loaded, {} if that failed
    _speech_rate,
    _in_speech,
    _current_utt,               \* the utterance buffer, in frames
    _pending_end_ts,            \* None or <<ms>>
    _rms_baseline,              \* None or <<rms>>
    RMS_GATE,                   \* util.audio_constants.RMS_GATE
    frame_ms,                   \* BUFFER_SIZE / SAMPLE_RATE, in ms
    cb,                         \* None, or <<what the last audio callback
                                \* was given and did>>
    say_threads,                \* Speaker._say_worker threads that have not ended
    leds,                       \* LEDController.leds: address -> LEDState
    motors,                     \* MotorController.motors: address -> MotorState
    _last_cmd_time,             \* MotorController._last_cmd_time
    hw_call,                    \* the last call of an actuator controller
    seq_call,                   \* the last call of Sequence.start or stop
    set_call,                   \* <<"foreign">> once HWState.set_state was
                                \* called with a value that is no state
    pos,                        \* where stop() and the tasks it races with
                                \* stand, <<>> where that is not followed
    radar_line                  \* None, or <<kind>> of the last line the radar
                                \* reader was given, where that is followed

vars == <<now, _state, radar_serial, radar_reader, _latest, _last_presence_ts,
          _thread, _stop_event, seq_running, seq_stop_event, seq_thread,
          seq_orphans, _conversation_thread, _conversation_stop_event, handler,
          conv_orphans, _chat_messages, _quiet_until_ts, _system_prompt,
          tick_log, dir_call, last_valid_sample_ts, fn, _personality_cfg,
          _speech_rate, _in_speech, _current_utt, _pending_end_ts,
          _rms_baseline, RMS_GATE, frame_ms, cb, say_threads, leds, motors,
          _last_cmd_time, hw_call, seq_call, set_call, pos, radar_line>>

\* what only the audio callback writes, and what nothing writes
audio_vars == <<_personality_cfg, _in_speech, _current_utt, _pending_end_ts,
                _rms_baseline, RMS_GATE, frame_ms, cb>>

\* what the conversation and the poller leave alone: speech output and the
\* actuators
ext_vars == <<say_threads, leds, motors, _last_cmd_time, hw_call,
              seq_call, set_call, pos, radar_line>>

\* no speech has been started; hwMap.json names no light and no motor
ExtInit ==
    /\ say_threads = <<>>
    /\ leds = <<>>
    /\ motors = <<>>
    /\ _last_cmd_time = 0
    /\ hw_call = <<>>
    /\ seq_call = <<>>
    /\ set_call = <<>>
    /\ pos = <<>>
    /\ radar_line = <<>>

----------------------------------------------------------------------------
\* Program constants

idle_threshold_mm == 3000

engaged_threshold_mm == 1500

\* EXIT_GRACE_SEC = 2.0, in ms
EXIT_GRACE_MS == 2000

\* poll_interval = 0.1, in ms
poll_interval_ms == 100

\* quiet_duration = 0.2, in ms
quiet_duration_ms == 200

IDLE == "IDLE"

APPROACHING == "APPROACHING"

ENGAGED == "ENGAGED"

LEAVING == "LEAVING"

ValidStates == {IDLE, APPROACHING, ENGAGED, LEAVING}

None == <<>>

----------------------------------------------------------------------------
\* Bounds of the model

\* the clock at construction (any time well after the epoch)
Epoch == 10000

\* how far past Epoch the poller may run while a visitor is in range
Horizon == 3000

\* live sequence workers per role beyond the one held in _thread
MaxOrphans == 1

\* abandoned conversation loops whose callback is still in flight
MaxOrphanLoops == 1

\* messages kept in the chat history
MaxChatLen == 4

MaxTime == Epoch + Horizon

\* wall-clock time between two passes of the poller loop: the sleep of
\* poll_interval plus whatever the pass itself took (joins take up to 1 s each)
TickSteps == {10 * poll_interval_ms, EXIT_GRACE_MS}

\* distances the radar reports
RadarDists == {0, engaged_threshold_mm, idle_threshold_mm, idle_threshold_mm + 1}

----------------------------------------------------------------------------
\* Engagement state machine: EngagementController._determine_state

\* lines 352-355: a missing or non-positive reading counts as far
normalize_distance(distance_mm) ==
    IF distance_mm = None \/ distance_mm[1] <= 0
    THEN idle_threshold_mm + 1
    ELSE distance_mm[1]

\* in_grace with the window closed on the right: "<=" written for "<"
in_grace_inclusive(now_ts, last_presence_ts) ==
    /\ last_presence_ts > 0
    /\ now_ts - last_presence_ts <= EXIT_GRACE_MS

\* in_grace measured against the poll interval instead of the grace window
in_grace_short(now_ts, last_presence_ts) ==
    /\ last_presence_ts > 0
    /\ now_ts - last_presence_ts < poll_interval_ms

\* in_grace that never looks at the elapsed time
in_grace_forever(now_ts, last_presence_ts) == last_presence_ts > 0

\* lines 357-360 and 374/386/397: a presence has been seen (the clock is not
\* at its initial 0.0) and it was seen less than the grace window ago
in_grace(now_ts, last_presence_ts) ==
    /\ last_presence_ts > 0
    /\ now_ts - last_presence_ts < EXIT_GRACE_MS

\* _determine_state that looks at the distance alone
_determine_state_by_distance(distance_mm, previous_state, now_ts, last_presence_ts) ==
    LET d == normalize_distance(distance_mm)
    IN  IF d > idle_threshold_mm THEN IDLE
        ELSE IF d > engaged_threshold_mm THEN APPROACHING
        ELSE ENGAGED

_determine_state(distance_mm, previous_state, now_ts, last_presence_ts) ==
    LET d == normalize_distance(distance_mm)
        g == in_grace(now_ts, last_presence_ts)
    IN  CASE previous_state = IDLE ->
                 IF d > idle_threshold_mm THEN IDLE
                 ELSE IF d > engaged_threshold_mm THEN APPROACHING
                 ELSE ENGAGED
          [] previous_state = APPROACHING ->
                 IF d > idle_threshold_mm THEN (IF g THEN APPROACHING ELSE IDLE)
                 ELSE IF d <= engaged_threshold_mm THEN ENGAGED
                 ELSE APPROACHING
          [] previous_state = ENGAGED ->
                 IF d > idle_threshold_mm THEN (IF g THEN LEAVING ELSE IDLE)
                 ELSE IF d > engaged_threshold_mm THEN LEAVING
                 ELSE ENGAGED
          [] previous_state = LEAVING ->
                 IF d > idle_threshold_mm THEN (IF g THEN LEAVING ELSE IDLE)
                 ELSE IF d <= engaged_threshold_mm THEN ENGAGED
                 ELSE LEAVING
          [] OTHER -> IDLE

----------------------------------------------------------------------------
\* Sequences (hw/engaged_sequence.py, hw/approaching_sequence.py; the idle and
\* leaving sequences are driven through the same start/stop/is_running calls)

Roles == {"idle", "approaching", "engaged", "leaving"}

\* the Sequence object the director runs for a state
sequence_for(state) ==
    CASE state = IDLE -> "idle"
      [] state = APPROACHING -> "approaching"
      [] state = ENGAGED -> "engaged"
      [] state = LEAVING -> "leaving"

\* live worker threads of a role
workers(thread, orphans, r) == (IF thread[r] = "alive" THEN 1 ELSE 0) + orphans[r]

\* thread.join(timeout=1.0)
join_timeout_ms == 1000

\* the longest stretch of _run_loop that does not look at the stop event:
\* time.sleep(fade_in_ms / 1000.0); time.sleep(hold_ms / 1000.0).  The engaged
\* sequence holds for 750 ms, the approaching sequence for 150 ms; the idle
\* and leaving sequences are taken to be as prompt as the approaching one.
fade_in_ms == 400

hold_ms(r) == IF r = "engaged" THEN 750 ELSE 150

\* a join of the role's worker can run out
join_can_expire(r) == fade_in_ms + hold_ms(r) > join_timeout_ms

\* Sequence.stop on the Sequence object q of role r: set the stop event, join
\* the worker for at most 1 s, clear _running whether or not the worker has
\* exited.  joined says whether the worker left its loop within the timeout
\* when it might not (the model keeps at most MaxOrphans unreferenced workers
\* per role).
seq_stop(q, r, joined) ==
    IF ~q.running THEN q
    ELSE LET exits == joined \/ ~join_can_expire(r) \/ q.orphans >= MaxOrphans
         IN  [q EXCEPT !.stop_event = TRUE,
                       !.thread = IF @ = "alive" /\ exits THEN "dead" ELSE @,
                       !.running = FALSE]

\* a start that does not look at _running
seq_start_always(q, raises) ==
    [q EXCEPT !.stop_event = FALSE,
              !.orphans = @ + (IF q.thread = "alive" THEN 1 ELSE 0),
              !.thread = IF raises THEN "dead" ELSE "alive",
              !.running = ~raises]

\* Sequence.start: clear the stop event and put a new worker in _thread; a
\* worker still alive in the old _thread is no longer referenced.  raises:
\* Thread.start() fails, so _running is never set and the exception leaves.
seq_start(q, raises) ==
    IF q.running THEN q
    ELSE [q EXCEPT !.stop_event = FALSE,
                   !.orphans = @ + (IF q.thread = "alive" THEN 1 ELSE 0),
                   !.thread = IF raises THEN "dead" ELSE "alive",
                   !.running = ~raises]

\* "if seq.is_running(): seq.stop()" for each sequence named in rs
seq_stop_each(sequences, rs, joined) ==
    [r \in Roles |->
        IF \E i \in DOMAIN rs : rs[i] = r
        THEN seq_stop(sequences[r], r, joined)
        ELSE sequences[r]]

----------------------------------------------------------------------------
\* Text.  A str is the sequence of its tokens: words, blanks, line breaks, NUL
\* characters and the special tokens language models emit.  "" is <<>>.

Whitespace == {" ", "\n"}

\* upper-case spellings and their lower-case form
lower_token(t) ==
    CASE t = "*MUSIC*" -> "*music*"
      [] t = "(Empty)" -> "(empty)"
      [] t = "[EMPTY]" -> "[empty]"
      [] t = "Hello" -> "hello"
      [] OTHER -> t

\* str.lower()
lower(text) == [i \in DOMAIN text |-> lower_token(text[i])]

RECURSIVE lstrip(_)
lstrip(text) ==
    IF text # <<>> /\ Head(text) \in Whitespace THEN lstrip(Tail(text)) ELSE text

RECURSIVE rstrip(_)
rstrip(text) ==
    IF text # <<>> /\ text[Len(text)] \in Whitespace
    THEN rstrip(SubSeq(text, 1, Len(text) - 1))
    ELSE text

\* str.strip()
strip(text) == rstrip(lstrip(text))

\* the tokens matched by "</?start_of_turn>|</?end_of_turn>"
TurnTags == {"<start_of_turn>", "</start_of_turn>", "<end_of_turn>",
             "</end_of_turn>"}

\* tokens matched by "<\|[^>]*\|>"
PipeTags == {"<|endoftext|>", "<|im_end|>"}

NUL == "\\u0000"

RECURSIVE without(_, _)
without(text, tokens) ==
    IF text = <<>> THEN <<>>
    ELSE IF Head(text) \in tokens THEN without(Tail(text), tokens)
    ELSE <<Head(text)>> \o without(Tail(text), tokens)

----------------------------------------------------------------------------
\* Conversation loop and chat history

idle_handler == [pc |-> "idle", stale |-> FALSE]

\* self._personality_cfg = {}: load_personality raised
NoPersonality == [systemPrompt |-> None, speed |-> None]

\* a "speed" that int() converts, and one on which int() raises
Number(n) == [number |-> TRUE, value |-> n]

NotANumber == [number |-> FALSE, value |-> 0]

\* a personality file as load_personality returns it: it has both keys
Personality(prompt, speed) == [systemPrompt |-> <<prompt>>, speed |-> <<speed>>]

\* _personality_cfg.get("systemPrompt", "")
system_prompt_of(cfg) ==
    IF cfg.systemPrompt = None THEN <<>> ELSE cfg.systemPrompt[1]

\* the rate used until the conversation loop sets it, and when "speed" is
\* not a number
default_rate == 80

\* lines 827-832: int(_personality_cfg.get("speed", default_rate)), or
\* default_rate if that raises
speech_rate_of(cfg) ==
    IF cfg.speed = None THEN default_rate
    ELSE IF cfg.speed[1].number THEN cfg.speed[1].value
    ELSE default_rate


\* a frame as the callback consults it: is a say process running, the RMS of
\* the block, whether the VAD model finds speech in it, what transcribe() and
\* query_ollama() do and how long the two take together
Frame(tts, rms, vad, transcript, response, took) ==
    [tts |-> tts, rms |-> rms, vad |-> vad, transcript |-> transcript,
     response |-> response, took |-> took]

\* the outcome of transcribe(): it raises, or returns None or a str
Transcribed(raises, text) == [raises |-> raises, text |-> text]

NoTranscript == Transcribed(FALSE, None)

NoResponse == [kind |-> "none", text |-> <<>>]

\* the segmenter and orchestrator state the callback works on, with the calls
\* it has made
Segmenter(in_speech, utt, pending_end_ts, baseline, quiet_until, chat) ==
    [in_speech |-> in_speech, utt |-> utt, pending_end_ts |-> pending_end_ts,
     baseline |-> baseline, quiet_until |-> quiet_until, chat |-> chat,
     vad_calls |-> 0, transcribe_calls |-> 0, llm_calls |-> 0, said |-> <<>>,
     finalized |-> FALSE, raised |-> FALSE]

\* no audio callback has run yet
NoCallback ==
    [frame |-> 0, now_ts |-> 0,
     f |-> Frame(FALSE, 0, FALSE, NoTranscript, NoResponse, 0),
     before |-> Segmenter(FALSE, 0, None, None, 0, <<>>),
     did |-> Segmenter(FALSE, 0, None, None, 0, <<>>),
     silent_run |-> 0, apart |-> FALSE]

system_message(prompt) == [role |-> "system", content |-> prompt, stale |-> FALSE]

\* _reset_chat_history: drop everything, keep the system prompt if there is one
_reset_chat_history(prompt) ==
    IF prompt # <<>> THEN <<system_message(prompt)>> ELSE <<>>

\* a reset happened while these callbacks were handling an utterance
mark_in_flight(c) ==
    [c EXCEPT !.handler.stale = (c.handler.pc # "idle"),
              !.orphans = [i \in DOMAIN @ |-> [@[i] EXCEPT !.stale = TRUE]]]

\* _reset_chat_history as the director calls it, on the conversation state c
reset_conversation(c, prompt) ==
    mark_in_flight([c EXCEPT !.chat = _reset_chat_history(prompt)])

\* _conversation_loop, before the stream opens: put the system prompt first
conv_prelude(chat, prompt) ==
    IF (chat = <<>> \/ chat[1].role # "system") /\ prompt # <<>>
    THEN <<system_message(prompt)>> \o chat
    ELSE chat

\* a _speak that says nothing
_speak_nothing(D, what) == D

\* _speak: Speaker.say starts the speech in its own thread and returns
_speak(D, what) == [D EXCEPT !.spoken = Append(@, what)]

\* _start_conversation
_start_conversation(c) ==
    IF c.thread # "none" THEN c
    ELSE [c EXCEPT !.stop_event = FALSE, !.thread = "starting"]

\* _stop_conversation: set the stop event, join the loop for at most 1 s, drop
\* the handle.  The loop polls the event every 100 ms and then closes its
\* input stream, which waits for a callback in flight: the join runs out
\* exactly when the callback is inside transcribe or the LLM call.
_stop_conversation(c, prompt) ==
    IF c.thread = "none" THEN c
    ELSE LET chat == IF c.thread = "starting"
                     THEN conv_prelude(c.chat, prompt) ELSE c.chat
         IN  IF c.handler.pc = "idle"
             THEN [c EXCEPT !.stop_event = TRUE, !.thread = "none", !.chat = chat]
             ELSE [c EXCEPT !.stop_event = TRUE, !.thread = "none", !.chat = chat,
                            !.orphans = Append(@, c.handler),
                            !.handler = idle_handler]

----------------------------------------------------------------------------
\* Behavior director: EngagementController._apply_led_behavior_for

\* farewell_from that forgets the LEAVING state
farewell_from_engaged_only(previous_state) == previous_state = ENGAGED

\* line 424: a farewell is spoken on return to IDLE from these states
farewell_from(previous_state) == previous_state \in {ENGAGED, LEAVING}

\* stopped_on_entry whose IDLE branch leaves the leaving sequence alone
stopped_on_entry_keeps_leaving(state) ==
    CASE state = IDLE -> <<"approaching", "engaged">>
      [] state = APPROACHING -> <<"idle", "engaged", "leaving">>
      [] state = ENGAGED -> <<"idle", "approaching", "leaving">>
      [] state = LEAVING -> <<"idle", "approaching", "engaged">>

\* lines 443-451, 465-475, 504-512, 526-534: the sequences each branch stops
stopped_on_entry(state) ==
    CASE state = IDLE -> <<"approaching", "engaged", "leaving">>
      [] state = APPROACHING -> <<"idle", "engaged", "leaving">>
      [] state = ENGAGED -> <<"idle", "approaching", "leaving">>
      [] state = LEAVING -> <<"idle", "approaching", "engaged">>

\* the start() that ends a branch; an exception it raises leaves the director
start_sequence(D, r, raises) ==
    [D EXCEPT !.raised = raises /\ ~D.sequences[r].running,
              !.sequences[r] = seq_start(@, raises)]

_apply_led_behavior_for(D, state, previous_state, joined, raises) ==
    CASE state = IDLE ->
            LET D1 == IF farewell_from(previous_state)
                      THEN _speak(D, "farewell") ELSE D
                D2 == [D1 EXCEPT !.conv = reset_conversation(@, _system_prompt)]
                D3 == [D2 EXCEPT !.sequences =
                          seq_stop_each(@, stopped_on_entry(state), joined)]
                D4 == [D3 EXCEPT !.conv = _stop_conversation(@, _system_prompt)]
            IN  start_sequence(D4, "idle", raises)
      [] state = APPROACHING ->
            LET D1 == [D EXCEPT !.sequences =
                          seq_stop_each(@, stopped_on_entry(state), joined)]
                D2 == [D1 EXCEPT !.conv = _stop_conversation(@, _system_prompt)]
            IN  start_sequence(D2, "approaching", raises)
      [] state = ENGAGED ->
            LET D1 == _speak(D, "greeting")
                D2 == [D1 EXCEPT !.sequences =
                          seq_stop_each(@, stopped_on_entry(state), joined)]
                D3 == [D2 EXCEPT !.conv = _start_conversation(@)]
            IN  start_sequence(D3, "engaged", raises)
      [] state = LEAVING ->
            LET D1 == [D EXCEPT !.sequences =
                          seq_stop_each(@, stopped_on_entry(state), joined)]
                D2 == [D1 EXCEPT !.conv = _stop_conversation(@, _system_prompt)]
            IN  start_sequence(D2, "leaving", raises)
      [] OTHER ->
            LET all == <<"idle", "approaching", "engaged", "leaving">>
                stopped_any == \E r \in Roles : D.sequences[r].running
                D1 == [D EXCEPT !.sequences = seq_stop_each(@, all, joined)]
            IN  IF stopped_any
                THEN [D1 EXCEPT !.conv = _stop_conversation(@, _system_prompt)]
                ELSE D1

----------------------------------------------------------------------------
\* State the director works on, gathered from and written back to the
\* variables

CurConv ==
    [thread |-> _conversation_thread, stop_event |-> _conversation_stop_event,
     handler |-> handler, orphans |-> conv_orphans, chat |-> _chat_messages]

CurD ==
    [sequences |-> [r \in Roles |->
                       [running |-> seq_running[r],
                        stop_event |-> seq_stop_event[r],
                        thread |-> seq_thread[r], orphans |-> seq_orphans[r]]],
     conv |-> CurConv, spoken |-> <<>>, raised |-> FALSE]

Commit(D) ==
    /\ seq_running' = [r \in Roles |-> D.sequences[r].running]
    /\ seq_stop_event' = [r \in Roles |-> D.sequences[r].stop_event]
    /\ seq_thread' = [r \in Roles |-> D.sequences[r].thread]
    /\ seq_orphans' = [r \in Roles |-> D.sequences[r].orphans]
    /\ _conversation_thread' = D.conv.thread
    /\ _conversation_stop_event' = D.conv.stop_event
    /\ handler' = D.conv.handler
    /\ conv_orphans' = D.conv.orphans
    /\ _chat_messages' = D.conv.chat

\* the record kept of an invocation of the director
called(D, state, previous_state, committed) ==
    [state |-> state, prev |-> previous_state, committed |-> committed,
     spoken |-> D.spoken, raised |-> D.raised, flip |-> ~dir_call.flip]

\* how the join of a sequence worker may end (at most one sequence is running
\* and so joined in any call of the director)
JoinOutcomes == BOOLEAN

----------------------------------------------------------------------------
\* Initial state: after HWState() and EngagementController(...) are constructed

NoCall ==
    [state |-> "NONE", prev |-> "NONE", committed |-> "NONE",
     spoken |-> <<>>, raised |-> FALSE, flip |-> FALSE]

NoTick == [ts |-> 0, prev |-> "NONE", computed |-> "NONE", ncalls |-> 0]

NoFn ==
    [distance_mm |-> None, previous_state |-> IDLE, now_ts |-> 0,
     last_presence_ts |-> 0, result |-> "done"]

InitBase(personalities, serials) ==
    /\ now = Epoch
    /\ _state = IDLE
    /\ radar_serial \in serials
    /\ radar_reader = "none"
    /\ _latest = None
    /\ _last_presence_ts = 0
    /\ _thread = "none"
    /\ _stop_event = FALSE
    /\ seq_running = [r \in Roles |-> FALSE]
    /\ seq_stop_event = [r \in Roles |-> FALSE]
    /\ seq_thread = [r \in Roles |-> "none"]
    /\ seq_orphans = [r \in Roles |-> 0]
    /\ _conversation_thread = "none"
    /\ _conversation_stop_event = FALSE
    /\ handler = idle_handler
    /\ conv_orphans = <<>>
    /\ _personality_cfg \in personalities
    /\ _system_prompt = system_prompt_of(_personality_cfg)
    /\ _speech_rate = default_rate
    /\ _in_speech = FALSE
    /\ _current_utt = 0
    /\ _rms_baseline = None
    /\ _pending_end_ts = None
    /\ cb = None
    /\ _chat_messages = _reset_chat_history(_system_prompt)
    /\ _quiet_until_ts = 0
    /\ tick_log = NoTick
    /\ dir_call = NoCall
    /\ last_valid_sample_ts = 0

InitWith(personalities, serials) ==
    /\ InitBase(personalities, serials)
    /\ ExtInit

Init ==
    /\ InitWith({NoPersonality, Personality(<<"sys">>, Number(120))}, BOOLEAN)
    /\ fn = NoFn
    /\ RMS_GATE = 0
    /\ frame_ms = poll_interval_ms

----------------------------------------------------------------------------
\* HWState

\* set_state without the test for the four states
set_state_unchecked(current, new_state) == new_state

\* HWState.set_state
set_state(current, new_state) ==
    IF new_state \notin ValidStates THEN current ELSE new_state

----------------------------------------------------------------------------
\* EngagementController.start / stop

Start ==
    /\ _thread # "alive"
    /\ \E joined \in JoinOutcomes :
         \E D \in {_apply_led_behavior_for(CurD, _state, "NONE", joined, FALSE)} :
             /\ Commit(D)
             /\ dir_call' = called(D, _state, "NONE", _state)
    /\ radar_reader' = IF radar_serial THEN "present" ELSE radar_reader
    /\ _stop_event' = FALSE
    /\ _thread' = "alive"
    /\ UNCHANGED <<now, _state, radar_serial, _latest, _last_presence_ts,
                   _quiet_until_ts, _system_prompt, _speech_rate,
                   audio_vars, ext_vars, tick_log,
                   last_valid_sample_ts, fn>>

Stop ==
    /\ _thread # "none"
    /\ \E joined \in JoinOutcomes :
         \E D \in {[CurD EXCEPT
                        !.conv = _stop_conversation(@, _system_prompt),
                        !.sequences = seq_stop_each(
                            @, <<"idle", "approaching", "engaged", "leaving">>,
                            joined)]} :
             Commit(D)
    /\ _stop_event' = TRUE
    /\ _thread' = "none"
    /\ UNCHANGED <<now, _state, radar_serial, radar_reader, _latest,
                   _last_presence_ts, _quiet_until_ts, _system_prompt, _speech_rate,
                   audio_vars, ext_vars, tick_log,
                   dir_call, last_valid_sample_ts, fn>>

----------------------------------------------------------------------------
\* Radar reader thread: RadarReader._poll_loop

\* one answer to READ: empty, malformed, or six integers of which the model
\* keeps dist and whether any other field is non-zero
RadarLines ==
    {[kind |-> k, dist |-> 0, rest |-> 0] : k \in {"empty", "malformed"}}
    \cup {[kind |-> "fields", dist |-> d, rest |-> z] : d \in RadarDists, z \in {0, 1}}

RadarPoll ==
    /\ radar_reader = "present"
    /\ \E line \in RadarLines :
         _latest' = IF line.kind # "fields" \/ (line.dist = 0 /\ line.rest = 0)
                    THEN _latest
                    ELSE <<line.dist>>
    /\ UNCHANGED <<now, _state, radar_serial, radar_reader, _last_presence_ts,
                   _thread, _stop_event, seq_running, seq_stop_event, seq_thread,
                   seq_orphans, _conversation_thread, _conversation_stop_event,
                   handler, conv_orphans, _chat_messages, _quiet_until_ts,
                   _system_prompt, _speech_rate,
                   audio_vars, ext_vars, tick_log, dir_call, last_valid_sample_ts, fn>>

----------------------------------------------------------------------------
\* Presence poller: EngagementController._loop

\* counts_as_presence without the test for a positive distance
counts_as_presence_unsigned(distance) ==
    distance # None /\ distance[1] <= idle_threshold_mm

\* line 297: a reading that counts as presence
counts_as_presence(distance) ==
    distance # None /\ distance[1] > 0 /\ distance[1] <= idle_threshold_mm

\* state_changed that lets every pass through
state_changed_always(new_state, prev_state) == TRUE

\* line 303
state_changed(new_state, prev_state) == new_state # prev_state

\* the model's clock stops at MaxTime, except that a pass that sees nobody
\* may still begin until the grace window of the last presence has passed
TimeAllowed(now_ts, presence) ==
    \/ now_ts <= MaxTime
    \/ ~presence /\ now <= _last_presence_ts + EXIT_GRACE_MS

\* one pass of the while loop with a radar reader; raises: the director's
\* final Sequence.start() raises, which ends the loop (the try is outside it)
TickBody(dt, joined, raises) ==
    LET now_ts == now + dt
        distance == _latest
        presence == counts_as_presence(distance)
        last == IF presence THEN now_ts ELSE _last_presence_ts
        prev_state == _state
        new_state == _determine_state(distance, prev_state, now_ts, last)
        changed == state_changed(new_state, prev_state)
        committed == set_state(prev_state, new_state)
    IN  /\ _thread = "alive"
        /\ ~_stop_event
        /\ radar_reader = "present"
        /\ TimeAllowed(now_ts, presence)
        /\ raises => changed
        /\ now' = now_ts
        /\ _last_presence_ts' = last
        /\ last_valid_sample_ts' =
               IF distance # None /\ distance[1] > 0
                  /\ distance[1] <= idle_threshold_mm
               THEN now_ts ELSE last_valid_sample_ts
        /\ IF changed
           THEN \E D \in {_apply_led_behavior_for(CurD, new_state, prev_state,
                                                 joined, raises)} :
                    /\ raises => D.raised
                    /\ _state' = committed
                    /\ Commit(D)
                    /\ dir_call' = called(D, new_state, prev_state, committed)
           ELSE UNCHANGED <<_state, seq_running, seq_stop_event, seq_thread,
                            seq_orphans, _conversation_thread,
                            _conversation_stop_event, handler, conv_orphans,
                            _chat_messages, dir_call>>
        /\ tick_log' = [ts |-> now_ts, prev |-> prev_state, computed |-> new_state,
                        ncalls |-> IF changed THEN 1 ELSE 0]
        /\ _thread' = IF raises THEN "dead" ELSE _thread
        /\ UNCHANGED <<radar_serial, radar_reader, _latest, _stop_event,
                       _quiet_until_ts, _system_prompt, _speech_rate,
                   audio_vars, ext_vars, fn>>

Tick == \E dt \in TickSteps, joined \in JoinOutcomes : TickBody(dt, joined, FALSE)

TickCrash == \E dt \in TickSteps, joined \in JoinOutcomes : TickBody(dt, joined, TRUE)

\* a pass of the loop while HWState has no radar reader: warn, sleep, continue
TickNoRadar ==
    /\ _thread = "alive"
    /\ ~_stop_event
    /\ radar_reader = "none"
    /\ \E dt \in TickSteps : now + dt <= MaxTime /\ now' = now + dt
    /\ UNCHANGED <<_state, radar_serial, radar_reader, _latest, _last_presence_ts,
                   _thread, _stop_event, seq_running, seq_stop_event, seq_thread,
                   seq_orphans, _conversation_thread, _conversation_stop_event,
                   handler, conv_orphans, _chat_messages, _quiet_until_ts,
                   _system_prompt, _speech_rate,
                   audio_vars, ext_vars, tick_log, dir_call, last_valid_sample_ts, fn>>

----------------------------------------------------------------------------
\* Sequence worker: Sequence._run_loop

\* a worker reaches "while not self._stop_event.is_set()" with the event set
\* and returns
SeqWorkerExit ==
    /\ \E r \in Roles :
         /\ seq_stop_event[r]
         /\ \/ /\ seq_thread[r] = "alive"
               /\ seq_thread' = [seq_thread EXCEPT ![r] = "dead"]
               /\ UNCHANGED seq_orphans
            \/ /\ seq_orphans[r] > 0
               /\ seq_orphans' = [seq_orphans EXCEPT ![r] = @ - 1]
               /\ UNCHANGED seq_thread
    /\ UNCHANGED <<now, _state, radar_serial, radar_reader, _latest,
                   _last_presence_ts, _thread, _stop_event, seq_running,
                   seq_stop_event, _conversation_thread, _conversation_stop_event,
                   handler, conv_orphans, _chat_messages, _quiet_until_ts,
                   _system_prompt, _speech_rate,
                   audio_vars, ext_vars, tick_log, dir_call, last_valid_sample_ts, fn>>

----------------------------------------------------------------------------
\* The audio callback of the conversation: gate, segmenter, utterance handler.
\* RMS values are in millionths of full scale; an RMS is never negative.

\* the outcome of query_ollama(): it raises ("raise"), or returns None
\* ("none"), a str ("str"), an object with a content attribute ("content"), or
\* an object without one ("object")
Response(kind, text) == [kind |-> kind, text |-> text]

\* marker in {"*music*", "(empty)", "[empty]"}
Placeholders == {<<"*music*">>, <<"(empty)">>, <<"[empty]">>}

\* line 628: clean_text = text.strip()
clean_text(text) == strip(text[1])

\* a test that knows the placeholders in lower case only
accepts_transcript_case_sensitive(text) ==
    /\ text # None
    /\ text[1] # <<>>
    /\ clean_text(text) # <<>>
    /\ clean_text(text) \notin Placeholders

\* lines 624-639: the transcript is handled; it is not when it is None or "",
\* blank, or a placeholder in any case
accepts_transcript(text) ==
    /\ text # None
    /\ text[1] # <<>>
    /\ clean_text(text) # <<>>
    /\ lower(clean_text(text)) \notin Placeholders

\* str(response) of an object that has no content attribute
str_of_object == <<"<response>">>

\* lines 686-692: the reply text of a response that is not None
reply_text(response) ==
    CASE response.kind = "str" -> strip(response.text)
      [] response.kind = "content" -> strip(response.text)
      [] response.kind = "object" -> strip(str_of_object)

\* a test that takes every reply that is not None
accepts_reply_any(response) == response.kind \notin {"raise", "none"}

\* lines 661-696: the reply is usable; it is not when query_ollama raised or
\* returned None, or when the reply text is empty
accepts_reply(response) ==
    /\ response.kind \notin {"raise", "none"}
    /\ reply_text(response) # <<>>

\* a clean-up that only strips
cleaned_reply_keeps_tags(reply) == strip(reply)

\* lines 714-719: what is handed to say
cleaned_reply(reply) ==
    strip(without(without(without(reply, TurnTags), PipeTags), {NUL}))

user_message(text) == [role |-> "user", content |-> text, stale |-> FALSE]

assistant_message(reply) ==
    [role |-> "assistant", content |-> reply, stale |-> FALSE]

\* ADAPTIVE_RMS_ALPHA = 0.05, in percent
ADAPTIVE_RMS_ALPHA_PCT == 5

ADAPTIVE_GATE_MULTIPLIER == 3

\* ADAPTIVE_MIN_GATE = 0.001, in millionths
ADAPTIVE_MIN_GATE == 1000

\* END_SILENCE_CONFIRM_SEC = 1.0, in ms
END_SILENCE_CONFIRM_MS == 1000

\* MIN_UTTERANCE_SEC = 0.60, in ms
MIN_UTTERANCE_MS == 600

\* an RMS that is NaN or infinite
NonFinite == -1

isfinite(rms) == rms # NonFinite

\* the weighted mean of the old baseline and the new RMS, rounded down
ema(baseline, rms) ==
    ((100 - ADAPTIVE_RMS_ALPHA_PCT) * baseline + ADAPTIVE_RMS_ALPHA_PCT * rms)
        \div 100

\* an update that applies the weighted mean to a baseline not yet set, read as 0
update_from_zero(baseline, rms) ==
    IF ~isfinite(rms) THEN baseline
    ELSE <<ema(IF baseline = None THEN 0 ELSE baseline[1], rms)>>

\* _update_rms_baseline: the first finite RMS becomes the baseline, every later
\* one is averaged in
_update_rms_baseline(baseline, rms) ==
    IF ~isfinite(rms) THEN baseline
    ELSE IF baseline = None THEN <<rms>>
    ELSE <<ema(baseline[1], rms)>>

max(values) == CHOOSE v \in values : \A w \in values : w <= v

\* _current_rms_gate
_current_rms_gate(baseline, static_gate) ==
    LET base_gate == IF static_gate > 0 THEN static_gate ELSE 0
        dynamic == (IF baseline = None THEN 0 ELSE baseline[1])
                       * ADAPTIVE_GATE_MULTIPLIER
    IN  max({ADAPTIVE_MIN_GATE, base_gate, dynamic})

\* lines 757-764: the frame is taken as silence without asking the VAD model,
\* and the baseline adapts to it (a NaN compares false with everything)
forced_silence(now_ts, quiet_until, rms, gate) ==
    now_ts < quiet_until \/ (isfinite(rms) /\ rms < gate)

\* a TTS check that lets every frame through
tts_drops_frame_never(tts_active) == FALSE

\* lines 751-753: the frame is ignored while a say process exists
tts_drops_frame(tts_active) == tts_active

\* a confirmation that needs more than the confirmation time
end_confirmed_strict(now_ts, pending_end_ts) ==
    now_ts - pending_end_ts > END_SILENCE_CONFIRM_MS

\* line 800: the silence has lasted long enough
end_confirmed(now_ts, pending_end_ts) ==
    now_ts - pending_end_ts >= END_SILENCE_CONFIRM_MS

\* an utterance filter that lets everything through
too_short_never(utt, fms) == FALSE

\* lines 807-809: utt.size / SAMPLE_RATE < MIN_UTTERANCE_SEC
too_short(utt, fms) == utt * fms < MIN_UTTERANCE_MS

\* _process_transcript on the callback record R (chat, quiet_until and the
\* calls made so far); end_ts is the time at which query_ollama has returned
_process_transcript(R, text, response, rate, end_ts) ==
    IF ~accepts_transcript(text) THEN R
    ELSE LET asked == [R EXCEPT
                         !.chat = Append(@, user_message(clean_text(text))),
                         !.llm_calls = @ + 1]
         IN  IF ~accepts_reply(response) THEN asked
             ELSE [asked EXCEPT
                     !.chat = Append(@, assistant_message(reply_text(response))),
                     !.said = Append(@, [text |-> cleaned_reply(reply_text(response)),
                                         rate |-> rate]),
                     !.quiet_until = end_ts + quiet_duration_ms]

\* an end of utterance that leaves the buffer as it is and hands nothing on
finalize_keeps_buffer(R, f, fms, rate, end_ts) ==
    [R EXCEPT !.in_speech = FALSE, !.pending_end_ts = None, !.finalized = TRUE]

\* lines 800-814: the end of the utterance is confirmed
finalize(R, f, fms, rate, end_ts) ==
    LET done == [R EXCEPT !.in_speech = FALSE, !.pending_end_ts = None,
                          !.utt = 0, !.finalized = TRUE]
    IN  IF R.utt = 0 \/ too_short(R.utt, fms) THEN done
        ELSE IF f.transcript.raises
        THEN [done EXCEPT !.transcribe_calls = @ + 1, !.raised = TRUE]
        ELSE _process_transcript([done EXCEPT !.transcribe_calls = @ + 1],
                                 f.transcript.text, f.response, rate, end_ts)

\* _audio_callback on the segmenter state S for the frame f that arrives at
\* now_ts; fms is the duration of a frame
_audio_callback(S, f, now_ts, fms, static_gate, rate) ==
    LET gate == _current_rms_gate(S.baseline, static_gate)
        silent == forced_silence(now_ts, S.quiet_until, f.rms, gate)
        gated == IF silent
                 THEN [S EXCEPT !.baseline = _update_rms_baseline(@, f.rms)]
                 ELSE [S EXCEPT !.vad_calls = @ + 1]
        speech_detected == ~silent /\ f.vad
    IN  IF tts_drops_frame(f.tts) THEN S
        ELSE IF speech_detected
        THEN [gated EXCEPT !.in_speech = TRUE, !.pending_end_ts = None,
                           !.utt = (IF S.in_speech THEN @ ELSE 0) + 1]
        ELSE IF ~S.in_speech THEN gated
        ELSE IF S.pending_end_ts = None
        THEN [gated EXCEPT !.pending_end_ts = <<now_ts>>]
        ELSE IF ~end_confirmed(now_ts, S.pending_end_ts[1]) THEN gated
        ELSE finalize(gated, f, fms, rate, now_ts + f.took)

----------------------------------------------------------------------------
\* Conversation loop thread and audio callback

\* what transcribe() may return: nothing, or a text
Transcripts == {None, <<<<"hello">>>>}

\* what query_ollama() may return: nothing, or a reply
Replies == {Response("none", <<>>), Response("str", <<"hi", " ", "there">>)}

\* chat entries a callback in flight may still append
pending(h) == IF h.pc = "transcribing" THEN 2 ELSE IF h.pc = "llm" THEN 1 ELSE 0

RECURSIVE pending_all(_)
pending_all(hs) == IF hs = <<>> THEN 0 ELSE pending(Head(hs)) + pending_all(Tail(hs))

\* the callback k: 0 is the one of the current stream, i > 0 the i-th abandoned
handler_of(k) == IF k = 0 THEN handler ELSE conv_orphans[k]

\* _conversation_loop up to the open input stream
ConvLoopBegin ==
    /\ _conversation_thread = "starting"
    /\ _conversation_thread' = "running"
    /\ _chat_messages' = conv_prelude(_chat_messages, _system_prompt)
    /\ _speech_rate' = speech_rate_of(_personality_cfg)
    /\ UNCHANGED <<now, _state, radar_serial, radar_reader, _latest,
                   _last_presence_ts, _thread, _stop_event, seq_running,
                   seq_stop_event, seq_thread, seq_orphans,
                   _conversation_stop_event, handler, conv_orphans,
                   _quiet_until_ts, _system_prompt, audio_vars, ext_vars, tick_log, dir_call,
                   last_valid_sample_ts, fn>>

\* _audio_callback on the frame that confirms the end of an utterance of at
\* least MIN_UTTERANCE_SEC: the callback goes on into transcribe()
AudioFinalize ==
    /\ _conversation_thread = "running"
    /\ handler.pc = "idle"
    /\ Len(conv_orphans) < MaxOrphanLoops
    /\ Len(_chat_messages) + pending_all(conv_orphans) + 2 <= MaxChatLen
    /\ handler' = [pc |-> "transcribing", stale |-> FALSE]
    /\ UNCHANGED <<now, _state, radar_serial, radar_reader, _latest,
                   _last_presence_ts, _thread, _stop_event, seq_running,
                   seq_stop_event, seq_thread, seq_orphans, _conversation_thread,
                   _conversation_stop_event, conv_orphans, _chat_messages,
                   _quiet_until_ts, _system_prompt, _speech_rate,
                   audio_vars, ext_vars, tick_log, dir_call,
                   last_valid_sample_ts, fn>>

\* the callback k returns: the current stream can deliver the next frame, an
\* abandoned stream finishes closing and its loop thread ends
returned(k) ==
    IF k = 0
    THEN /\ handler' = idle_handler
         /\ UNCHANGED conv_orphans
    ELSE /\ conv_orphans' =
               SubSeq(conv_orphans, 1, k - 1)
               \o SubSeq(conv_orphans, k + 1, Len(conv_orphans))
         /\ UNCHANGED handler

\* the callback k moves on to the next blocking call
moved(k, pc) ==
    IF k = 0
    THEN /\ handler' = [handler EXCEPT !.pc = pc]
         /\ UNCHANGED conv_orphans
    ELSE /\ conv_orphans' = [conv_orphans EXCEPT ![k].pc = pc]
         /\ UNCHANGED handler

\* transcribe() returns in callback k; _process_transcript up to query_ollama
TranscribeReturn ==
    /\ \E k \in 0..Len(conv_orphans), text \in Transcripts :
         /\ handler_of(k).pc = "transcribing"
         /\ IF accepts_transcript(text)
            THEN /\ _chat_messages' =
                        Append(_chat_messages,
                               [role |-> "user", content |-> clean_text(text),
                                stale |-> handler_of(k).stale])
                 /\ moved(k, "llm")
            ELSE /\ UNCHANGED _chat_messages
                 /\ returned(k)
    /\ UNCHANGED <<now, _state, radar_serial, radar_reader, _latest,
                   _last_presence_ts, _thread, _stop_event, seq_running,
                   seq_stop_event, seq_thread, seq_orphans, _conversation_thread,
                   _conversation_stop_event, _quiet_until_ts, _system_prompt, _speech_rate,
                   audio_vars, ext_vars,
                   tick_log, dir_call, last_valid_sample_ts, fn>>

\* query_ollama() returns in callback k; the rest of _process_transcript
LlmReturn ==
    /\ \E k \in 0..Len(conv_orphans), reply \in Replies :
         /\ handler_of(k).pc = "llm"
         /\ IF accepts_reply(reply)
            THEN /\ _chat_messages' =
                        Append(_chat_messages,
                               [role |-> "assistant",
                                content |-> reply_text(reply),
                                stale |-> handler_of(k).stale])
                 /\ _quiet_until_ts' = now + quiet_duration_ms
            ELSE UNCHANGED <<_chat_messages, _quiet_until_ts>>
         /\ returned(k)
    /\ UNCHANGED <<now, _state, radar_serial, radar_reader, _latest,
                   _last_presence_ts, _thread, _stop_event, seq_running,
                   seq_stop_event, seq_thread, seq_orphans, _conversation_thread,
                   _conversation_stop_event, _system_prompt, _speech_rate,
                   audio_vars, ext_vars, tick_log, dir_call,
                   last_valid_sample_ts, fn>>

----------------------------------------------------------------------------
\* The installation

Next ==
    \/ Start
    \/ Stop
    \/ RadarPoll
    \/ Tick
    \/ TickCrash
    \/ TickNoRadar
    \/ SeqWorkerExit
    \/ ConvLoopBegin
    \/ AudioFinalize
    \/ TranscribeReturn
    \/ LlmReturn

Spec == Init /\ [][Next]_vars

\* The same, with a poller that is neither stopped nor hit by a fault and is
\* scheduled again and again
NextLive ==
    \/ Start
    \/ RadarPoll
    \/ Tick
    \/ TickNoRadar
    \/ SeqWorkerExit
    \/ ConvLoopBegin
    \/ AudioFinalize
    \/ TranscribeReturn
    \/ LlmReturn

SpecLive == Init /\ [][NextLive]_vars /\ WF_vars(Tick)

----------------------------------------------------------------------------
\* _determine_state on its own: one call on arguments drawn from these sets

FnDistances ==
    {None, <<-5>>, <<0>>, <<1>>, <<1200>>, <<engaged_threshold_mm>>,
     <<engaged_threshold_mm + 1>>, <<2500>>, <<idle_threshold_mm>>,
     <<idle_threshold_mm + 1>>, <<4000>>}

FnStates == ValidStates \cup {"UNKNOWN"}

FnNow == {1000, 2999, 3000, 3001, 6000}

FnLast == {0, 1000, 1001, 5000}

InitFn ==
    /\ InitWith({Personality(<<"sys">>, Number(120))}, {TRUE})
    /\ RMS_GATE = 0
    /\ frame_ms = poll_interval_ms
    /\ fn \in [distance_mm : FnDistances, previous_state : FnStates,
               now_ts : FnNow, last_presence_ts : FnLast, result : {"pending"}]

FnCall ==
    /\ fn.result = "pending"
    /\ fn' = [fn EXCEPT !.result =
                 _determine_state(fn.distance_mm, fn.previous_state,
                                  fn.now_ts, fn.last_presence_ts)]
    /\ UNCHANGED <<now, _state, radar_serial, radar_reader, _latest,
                   _last_presence_ts, _thread, _stop_event, seq_running,
                   seq_stop_event, seq_thread, seq_orphans, _conversation_thread,
                   _conversation_stop_event, handler, conv_orphans,
                   _chat_messages, _quiet_until_ts, _system_prompt, _speech_rate,
                   audio_vars, ext_vars, tick_log,
                   dir_call, last_valid_sample_ts>>

SpecFn == InitFn /\ [][FnCall]_vars

----------------------------------------------------------------------------
\* The conversation of one visit: the visitor is engaged, the input stream is
\* open and delivers frame after frame to the audio callback

\* frames delivered to the callback in one visit
MaxFrames == 5

\* BUFFER_SIZE / SAMPLE_RATE of the installation, in ms
FrameDurations == {400, 600, 1000}

\* RMS_GATE of the installation: none, or one above ADAPTIVE_MIN_GATE
StaticGates == {0, 5 * ADAPTIVE_MIN_GATE}

\* a block that is NaN, near silence, a murmur, loud
RmsLevels == {NonFinite, 600, 4000, 20000}

\* time spent in transcribe() and query_ollama() together
BackendTimes == {300}

\* the arrival of a block that was recorded while the callback was busy
backlog_ms == 100

TranscriptTexts ==
    {None, <<<<>>>>, <<<<" ">>>>, <<<<"*MUSIC*">>>>, <<<<" ", "(empty)", "\n">>>>,
     <<<<"[empty]">>>>, <<<<" ", "Hello", " ">>>>,
     <<<<"*music*", " ", "hello">>>>}

FrameTranscripts ==
    {Transcribed(TRUE, None)} \cup {Transcribed(FALSE, t) : t \in TranscriptTexts}

FrameResponses ==
    {Response("raise", <<>>), Response("none", <<>>), Response("str", <<>>),
     Response("str", <<" ", "\n">>),
     Response("str", <<"hi", " ", "there">>),
     Response("str", <<" ", "<start_of_turn>", "hi", NUL, "<|endoftext|>", "\n">>),
     Response("str", <<"<end_of_turn>">>),
     Response("content", <<"hi", " ">>), Response("content", <<>>),
     Response("object", <<>>)}

ConvPersonalities ==
    {NoPersonality, Personality(<<"sys">>, Number(120)), Personality(<<"sys">>, NotANumber)}

\* the last callback, NoCallback before the first
last_cb == IF cb = None THEN NoCallback ELSE cb[1]

\* the callback's view of the variables
CurS ==
    Segmenter(_in_speech, _current_utt, _pending_end_ts, _rms_baseline,
              _quiet_until_ts, _chat_messages)

\* the callback on the frame f that arrives dt after the last one returned
on_frame(f, dt) ==
    _audio_callback(CurS, f, now + dt, frame_ms, RMS_GATE, _speech_rate)

\* The inputs of a frame are what the callback consults, in the order in which
\* it does: the answers of the VAD model, of transcribe() and of query_ollama()
\* are drawn only when the callback, given the earlier answers, asks for them
VadAnswers(tts, rms, dt) ==
    IF on_frame(Frame(tts, rms, FALSE, NoTranscript, NoResponse, 0), dt)
           .vad_calls = 1
    THEN BOOLEAN ELSE {FALSE}

TranscribeAnswers(tts, rms, vad, dt) ==
    IF on_frame(Frame(tts, rms, vad, NoTranscript, NoResponse, 0), dt)
           .transcribe_calls = 1
    THEN FrameTranscripts ELSE {NoTranscript}

LlmAnswers(tts, rms, vad, transcript, dt) ==
    IF on_frame(Frame(tts, rms, vad, transcript, NoResponse, 0), dt)
           .llm_calls = 1
    THEN FrameResponses ELSE {NoResponse}

\* controller.start(), a sample at the engaged threshold, the poller pass
\* that commits ENGAGED, and _conversation_loop up to the open stream
InitConv ==
    /\ now = Epoch + 10 * poll_interval_ms
    /\ _state = ENGAGED
    /\ radar_serial = TRUE
    /\ radar_reader = "present"
    /\ _latest = <<engaged_threshold_mm>>
    /\ _last_presence_ts = now
    /\ _thread = "alive"
    /\ _stop_event = FALSE
    /\ seq_running = [r \in Roles |-> r = "engaged"]
    /\ seq_stop_event = [r \in Roles |-> r = "idle"]
    /\ seq_thread = [r \in Roles |->
                        CASE r = "engaged" -> "alive"
                          [] r = "idle" -> "dead"
                          [] OTHER -> "none"]
    /\ seq_orphans = [r \in Roles |-> 0]
    /\ _conversation_thread = "running"
    /\ _conversation_stop_event = FALSE
    /\ handler = idle_handler
    /\ conv_orphans = <<>>
    /\ _personality_cfg \in ConvPersonalities
    /\ _system_prompt = system_prompt_of(_personality_cfg)
    /\ _chat_messages =
           conv_prelude(_reset_chat_history(_system_prompt), _system_prompt)
    /\ _speech_rate = speech_rate_of(_personality_cfg)
    /\ _quiet_until_ts = 0
    /\ _in_speech = FALSE
    /\ _current_utt = 0
    /\ _rms_baseline = None
    /\ _pending_end_ts = None
    /\ cb = None
    /\ ExtInit
    /\ RMS_GATE \in StaticGates
    /\ frame_ms \in FrameDurations
    /\ tick_log = [ts |-> now, prev |-> IDLE, computed |-> ENGAGED, ncalls |-> 1]
    /\ dir_call = [state |-> ENGAGED, prev |-> IDLE, committed |-> ENGAGED,
                   spoken |-> <<"greeting">>, raised |-> FALSE, flip |-> FALSE]
    /\ last_valid_sample_ts = now
    /\ fn = NoFn

\* the stream delivers a frame and _audio_callback runs on it to its end
AudioFrame ==
    /\ _conversation_thread = "running"
    /\ ~_conversation_stop_event
    /\ handler.pc = "idle"
    /\ last_cb.frame < MaxFrames
    /\ \E tts \in BOOLEAN,
          dt \in {frame_ms} \cup (IF last_cb.did.transcribe_calls > 0
                                  THEN {backlog_ms} ELSE {}) :
         \E rms \in (IF tts THEN {0} ELSE RmsLevels) :
         \E vad \in VadAnswers(tts, rms, dt) :
         \E transcript \in TranscribeAnswers(tts, rms, vad, dt) :
         \E response \in LlmAnswers(tts, rms, vad, transcript, dt) :
         \E took \in (IF transcript = NoTranscript /\ response = NoResponse
                          /\ TranscribeAnswers(tts, rms, vad, dt) = {NoTranscript}
                      THEN {0} ELSE BackendTimes) :
         \E f \in {Frame(tts, rms, vad, transcript, response, took)} :
         \E R \in {on_frame(f, dt)} :
            /\ Len(R.chat) <= MaxChatLen
            /\ now' = now + dt + took
            /\ _in_speech' = R.in_speech
            /\ _current_utt' = R.utt
            /\ _pending_end_ts' = R.pending_end_ts
            /\ _rms_baseline' = R.baseline
            /\ _quiet_until_ts' = R.quiet_until
            /\ _chat_messages' = R.chat
            /\ cb' = <<[frame |-> last_cb.frame + 1, now_ts |-> now + dt,
                        f |-> f, before |-> CurS, did |-> R,
                        silent_run |->
                            IF R.vad_calls = 1 /\ f.vad THEN 0
                            ELSE IF f.tts THEN last_cb.silent_run
                            ELSE last_cb.silent_run + 1,
                        apart |->
                            IF R.vad_calls = 1 /\ f.vad THEN TRUE
                            ELSE last_cb.apart /\ ~f.tts /\ dt = frame_ms]>>
    /\ UNCHANGED <<_state, radar_serial, radar_reader, _latest,
                   _last_presence_ts, _thread, _stop_event, seq_running,
                   seq_stop_event, seq_thread, seq_orphans, _conversation_thread,
                   _conversation_stop_event, handler, conv_orphans,
                   _system_prompt, _speech_rate, _personality_cfg, RMS_GATE,
                   frame_ms, ext_vars, tick_log, dir_call,
                   last_valid_sample_ts, fn>>

SpecConv == InitConv /\ [][AudioFrame]_vars

----------------------------------------------------------------------------
\* Properties

\* the transition table of the design: d is the normalized distance, g the
\* grace condition
TableNext(previous, d, g) ==
    LET column == IF d <= engaged_threshold_mm THEN 1
                  ELSE IF d <= idle_threshold_mm THEN 2
                  ELSE IF g THEN 3 ELSE 4
    IN  CASE previous = IDLE -> <<ENGAGED, APPROACHING, IDLE, IDLE>>[column]
          [] previous = APPROACHING ->
                 <<ENGAGED, APPROACHING, APPROACHING, IDLE>>[column]
          [] previous = ENGAGED -> <<ENGAGED, LEAVING, LEAVING, IDLE>>[column]
          [] previous = LEAVING -> <<ENGAGED, LEAVING, LEAVING, IDLE>>[column]

\* a missing or non-positive distance counts as idleThreshold + 1
TableDistance(distance) ==
    IF distance = None THEN idle_threshold_mm + 1
    ELSE IF distance[1] <= 0 THEN idle_threshold_mm + 1
    ELSE distance[1]

\* the sample is missing, non-positive or beyond the idle threshold
IsFar(distance) == TableDistance(distance) > idle_threshold_mm

\* C1 as stated: for every previous state of the table, every distance and
\* every pair (now, lastPresenceTs), _determine_state returns the table's next
\* state, with g defined as now - lastPresenceTs < exitGraceSec.
C1_TableWithPlainGrace ==
    (fn.result # "pending" /\ fn.previous_state \in ValidStates) =>
        fn.result = TableNext(fn.previous_state, TableDistance(fn.distance_mm),
                              fn.now_ts - fn.last_presence_ts < EXIT_GRACE_MS)

\* C1 amended: _determine_state returns the table's next state when g is
\* defined as lastPresenceTs > 0 and now - lastPresenceTs < exitGraceSec (a
\* presence clock still at its initial 0 gives no grace).
C1_TableWithSeenGrace ==
    (fn.result # "pending" /\ fn.previous_state \in ValidStates) =>
        fn.result = TableNext(fn.previous_state, TableDistance(fn.distance_mm),
                              /\ fn.last_presence_ts > 0
                              /\ fn.now_ts - fn.last_presence_ts < EXIT_GRACE_MS)

\* C1 witness: the call returned LEAVING for ENGAGED, a far distance and a
\* presence seen exactly at the edge of the window's inside
C1_Witness ==
    /\ fn.result = LEAVING
    /\ fn.previous_state = ENGAGED
    /\ IsFar(fn.distance_mm)
    /\ fn.last_presence_ts > 0
    /\ fn.now_ts - fn.last_presence_ts = EXIT_GRACE_MS - 1

\* C2: whenever the poller commits a transition from a non-IDLE state to
\* IDLE, there was a positive sample within the idle threshold and at least
\* the exit grace has elapsed since the last one; a missing or out-of-range
\* sample inside the grace window never takes the committed state to IDLE.
C2_IdleOnlyAfterGrace ==
    (tick_log.prev \in ValidStates \ {IDLE} /\ tick_log.computed = IDLE) =>
        /\ _state = IDLE
        /\ last_valid_sample_ts > 0
        /\ tick_log.ts - last_valid_sample_ts >= EXIT_GRACE_MS

\* C2 witness: the poller took APPROACHING to IDLE on a far sample after the
\* grace had run out
C2_Witness ==
    /\ tick_log.prev = APPROACHING
    /\ tick_log.computed = IDLE
    /\ _state = IDLE
    /\ tick_log.ts - last_valid_sample_ts >= EXIT_GRACE_MS

\* the clock of the model has run out while a visitor is still in range
ClockExhausted ==
    /\ ~IsFar(_latest)
    /\ \A dt \in TickSteps : now + dt > MaxTime

\* instants at which the poller can have seen a visitor
PresenceTimes == {t \in Epoch..MaxTime : \E dt \in TickSteps : (t - Epoch) % dt = 0}

\* C3: from ENGAGED or LEAVING, if the time of the last in-range sample stays
\* fixed while the poller keeps ticking, the committed state eventually becomes
\* IDLE; and once IDLE, ticks that sample nothing in range leave it IDLE and
\* call the director no more, so the transition to IDLE happens exactly once.
C3_EventuallyIdleOnce ==
    /\ \A t \in PresenceTimes :
           (_state \in {ENGAGED, LEAVING} /\ last_valid_sample_ts = t)
               ~> (_state = IDLE \/ last_valid_sample_ts # t \/ ClockExhausted)
    /\ [][(/\ tick_log' # tick_log
           /\ _state = IDLE
           /\ last_valid_sample_ts' = last_valid_sample_ts)
              => (_state' = IDLE /\ dir_call' = dir_call)]_vars

\* C3 witness: the director was called for the return to IDLE from ENGAGED or
\* LEAVING, and a later tick with nothing in range found IDLE and kept it
C3_Witness ==
    /\ dir_call.state = IDLE
    /\ dir_call.prev \in {ENGAGED, LEAVING}
    /\ tick_log.prev = IDLE
    /\ tick_log.computed = IDLE
    /\ tick_log.ncalls = 0
    /\ tick_log.ts > last_valid_sample_ts + EXIT_GRACE_MS
    /\ _state = IDLE

\* C4: in one tick the director is invoked exactly once when the computed
\* state differs from the committed one, with (computed, previous) and after
\* the commit, and not at all when they are equal: no call, no sequence
\* restarted, never a call with twice the same state.
C4_DirectorOncePerChange ==
    [][tick_log' # tick_log =>
          /\ tick_log'.prev = _state
          /\ IF tick_log'.computed # tick_log'.prev
             THEN /\ tick_log'.ncalls = 1
                  /\ dir_call'.flip # dir_call.flip
                  /\ dir_call'.state = tick_log'.computed
                  /\ dir_call'.prev = tick_log'.prev
                  /\ dir_call'.committed = tick_log'.computed
                  /\ _state' = tick_log'.computed
             ELSE /\ tick_log'.ncalls = 0
                  /\ dir_call' = dir_call
                  /\ _state' = _state
                  /\ seq_thread' = seq_thread
                  /\ seq_running' = seq_running
                  /\ seq_stop_event' = seq_stop_event]_vars

\* C4 witness: a tick computed ENGAGED again while the engaged sequence was
\* running, and made no call
C4_Witness ==
    /\ tick_log.prev = ENGAGED
    /\ tick_log.computed = ENGAGED
    /\ tick_log.ncalls = 0
    /\ dir_call.state = ENGAGED
    /\ seq_running["engaged"]

\* C5 as stated: an exception raised while a tick is processed is caught and
\* the poller goes on to the next tick, so a poller that was started and not
\* asked to stop is alive.
C5_PollerSurvivesException ==
    (_thread # "none" /\ ~_stop_event) => _thread = "alive"

\* the sequences whose running flag is set
RunningRoles == {r \in Roles : seq_running[r]}

\* C5 witness of the fault: the director's Sequence.start() raised in a tick
\* and the poller thread is gone although nobody asked it to stop
C5_PollerDead ==
    /\ dir_call.raised
    /\ _thread = "dead"
    /\ ~_stop_event

\* C6: after each director call that completes for a valid state S, the only
\* sequence whose running flag is set is the one mapped to S; and at no time
\* are two running flags set.
C6_OnlyMappedSequenceRuns ==
    /\ [](Cardinality(RunningRoles) <= 1)
    /\ [][(/\ dir_call' # dir_call
           /\ ~dir_call'.raised
           /\ dir_call'.state \in ValidStates)
              => RunningRoles' = {sequence_for(dir_call'.state)}]_vars

\* C6 witness: the director went from LEAVING to IDLE; the leaving sequence
\* has been stopped and the idle sequence runs
C6_Witness ==
    /\ dir_call.state = IDLE
    /\ dir_call.prev = LEAVING
    /\ ~dir_call.raised
    /\ seq_stop_event["leaving"]
    /\ RunningRoles = {"idle"}

\* C7 as stated: for every Sequence role at most one worker thread is alive at
\* any time, also when a stop() whose join ran out is followed by a start().
C7_OneWorkerPerRole ==
    \A r \in Roles : workers(seq_thread, seq_orphans, r) <= 1

\* the audio callback is handling an utterance, or a conversation loop
\* thread is alive
OrchestratorActive ==
    \/ _conversation_thread # "none"
    \/ handler.pc # "idle"
    \/ conv_orphans # <<>>

\* C8 as stated: the orchestrator (conversation loop thread alive, or audio
\* callback handling an utterance) is active only while the committed state
\* is ENGAGED.
C8_ActiveOnlyWhileEngaged == OrchestratorActive => _state = ENGAGED

\* what the director is to speak on a transition
ExpectedSpeech(state, previous_state) ==
    IF state = ENGAGED THEN <<"greeting">>
    ELSE IF state = IDLE /\ previous_state \in {ENGAGED, LEAVING}
         THEN <<"farewell">>
         ELSE <<>>

\* C9: the director speaks exactly one greeting on every transition into
\* ENGAGED, exactly one farewell on every transition from ENGAGED or LEAVING
\* to IDLE, and nothing on any other transition.
C9_GreetingAndFarewell ==
    dir_call.prev \in ValidStates =>
        /\ dir_call.state # dir_call.prev
        /\ dir_call.spoken = ExpectedSpeech(dir_call.state, dir_call.prev)

\* C9 witness: the transition from LEAVING to IDLE spoke one farewell
C9_Witness ==
    /\ dir_call.state = IDLE
    /\ dir_call.prev = LEAVING
    /\ dir_call.spoken = <<"farewell">>
    /\ _state = IDLE

\* C10 as stated: the chat history is reset on the transition to IDLE and,
\* under any interleaving with a callback in flight, holds afterwards no user
\* or assistant message of an utterance made before that transition.
C10_NoMessageFromBeforeReset ==
    \A i \in DOMAIN _chat_messages : ~_chat_messages[i].stale

\* C11 as stated: in every reachable state a non-empty chat history begins
\* with a system message, also when the personality failed to load or its
\* system prompt is empty.
C11_SystemMessageFirst ==
    _chat_messages # <<>> => _chat_messages[1].role = "system"

\* C11 witness of the fault: without a system prompt, the history of a
\* handled utterance begins with the user message
C11_UserMessageFirst ==
    /\ _system_prompt = <<>>
    /\ _chat_messages # <<>>
    /\ _chat_messages[1].role = "user"
    /\ ~_chat_messages[1].stale

\* no callback is inside transcribe() or query_ollama()
NoHandlerInProgress == handler.pc = "idle" /\ conv_orphans = <<>>

\* C20 as stated: whenever no handler is in progress, every user message of
\* the chat history is immediately followed by an assistant message, whatever
\* calls of the handled utterances failed.
C20_NoDanglingUserTurn ==
    NoHandlerInProgress =>
        \A i \in 1..Len(_chat_messages) :
            _chat_messages[i].role = "user" =>
                /\ i < Len(_chat_messages)
                /\ _chat_messages[i + 1].role = "assistant"

\* C20 witness of the fault: the handler has returned, the reset has not
\* interfered, and the history ends with the visitor's unanswered message
C20_UnansweredTurnKept ==
    /\ NoHandlerInProgress
    /\ _state = ENGAGED
    /\ _chat_messages # <<>>
    /\ _chat_messages[Len(_chat_messages)].role = "user"
    /\ \A i \in 1..Len(_chat_messages) : ~_chat_messages[i].stale

\* a callback has run and the own-voice condition held for its frame
OwnVoiceFrame == last_cb.frame > 0 /\ last_cb.f.tts

\* a callback has run on a frame that was not dropped
HeardFrame == last_cb.frame > 0 /\ ~last_cb.f.tts

\* the effective gate the last callback computed
GateBefore == max({RMS_GATE, ADAPTIVE_MIN_GATE,
                   (IF last_cb.before.baseline = None THEN 0
                    ELSE last_cb.before.baseline[1]) * ADAPTIVE_GATE_MULTIPLIER})

\* the last callback heard a frame whose RMS was below the effective gate
BelowGateFrame == HeardFrame /\ isfinite(last_cb.f.rms) /\ last_cb.f.rms < GateBefore

\* C12: a frame that arrives while the own voice is playing leaves inSpeech,
\* the utterance buffer, the pending-end timestamp, the baseline, quietUntil
\* and the chat history as they were, and neither the VAD model nor the
\* transcription backend (nor anything behind it) is called.
C12_OwnVoiceFrameDropped ==
    OwnVoiceFrame =>
        /\ _in_speech = last_cb.before.in_speech
        /\ _current_utt = last_cb.before.utt
        /\ _pending_end_ts = last_cb.before.pending_end_ts
        /\ _rms_baseline = last_cb.before.baseline
        /\ _quiet_until_ts = last_cb.before.quiet_until
        /\ _chat_messages = last_cb.before.chat
        /\ last_cb.did.vad_calls = 0
        /\ last_cb.did.transcribe_calls = 0
        /\ last_cb.did.llm_calls = 0
        /\ last_cb.did.said = <<>>

\* C12 witness: the own voice plays into an utterance whose end is pending,
\* long enough after the first silent frame for the end to be confirmed
C12_Witness ==
    /\ OwnVoiceFrame
    /\ last_cb.before.in_speech
    /\ last_cb.before.pending_end_ts # None
    /\ last_cb.now_ts - last_cb.before.pending_end_ts[1] >= END_SILENCE_CONFIRM_MS
    /\ last_cb.before.utt * frame_ms >= MIN_UTTERANCE_MS

\* C13 as stated: a frame below the effective gate heard while not in speech
\* does not start speech, does not reach the VAD model, and moves the baseline
\* by the weighted mean (1 - alpha) * baseline + alpha * rms, from a baseline
\* of 0 when none has been set (the value the gate itself reads then).
C13_BelowGateAlwaysAveraged ==
    BelowGateFrame /\ ~last_cb.before.in_speech =>
        /\ ~_in_speech
        /\ last_cb.did.vad_calls = 0
        /\ _rms_baseline = <<ema(IF last_cb.before.baseline = None THEN 0
                                 ELSE last_cb.before.baseline[1], last_cb.f.rms)>>

\* C13, amended: a frame below the effective gate heard while not in speech
\* does not start speech and does not reach the VAD model; the first such
\* frame ever makes its RMS the baseline, every later one moves the baseline
\* by the weighted mean.
C13_BelowGateSeedsThenAverages ==
    BelowGateFrame /\ ~last_cb.before.in_speech =>
        /\ ~_in_speech
        /\ last_cb.did.vad_calls = 0
        /\ _rms_baseline =
               IF last_cb.before.baseline = None THEN <<last_cb.f.rms>>
               ELSE <<((100 - ADAPTIVE_RMS_ALPHA_PCT) * last_cb.before.baseline[1]
                       + ADAPTIVE_RMS_ALPHA_PCT * last_cb.f.rms) \div 100>>

\* C13 witness: the third frame in a row below the gate, the gate being the
\* adaptive one and the baseline moving
C13_Witness ==
    /\ BelowGateFrame
    /\ last_cb.frame >= 3
    /\ ~last_cb.before.in_speech
    /\ last_cb.did.vad_calls = 0
    /\ last_cb.before.baseline # None
    /\ _rms_baseline # last_cb.before.baseline
    /\ GateBefore > RMS_GATE
    /\ GateBefore > ADAPTIVE_MIN_GATE

\* C14 as stated: a frame processed while inSpeech is true leaves the baseline
\* as it was.
C14_BaselineFrozenInSpeech ==
    last_cb.frame > 0 /\ last_cb.before.in_speech => _rms_baseline = last_cb.before.baseline

\* C14 witness of the fault: a low-energy frame inside an utterance, before
\* any end of speech is pending, has moved the baseline
C14_BaselineMovedInSpeech ==
    /\ BelowGateFrame
    /\ last_cb.before.in_speech
    /\ last_cb.before.pending_end_ts = None
    /\ last_cb.before.baseline # None
    /\ _rms_baseline # last_cb.before.baseline

\* the last callback heard a frame in which no speech was detected
SilentFrame == HeardFrame /\ ~(last_cb.did.vad_calls = 1 /\ last_cb.f.vad)

\* ceil(endSilenceConfirmSec / frameDurationSec)
ConfirmFrames == (END_SILENCE_CONFIRM_MS + frame_ms - 1) \div frame_ms

\* the duration of the utterance the last callback found in the buffer
UtteranceMs == last_cb.before.utt * frame_ms

\* C15 as stated: of the silent frames that follow a speech frame one frame
\* duration apart, the one that finalizes the utterance is number
\* ceil(endSilenceConfirmSec / frameDurationSec), the first silent frame being
\* number 1, and no other.
C15_FinalizedOnCeilFrame ==
    SilentFrame /\ last_cb.apart =>
        (last_cb.did.finalized <=> last_cb.silent_run = ConfirmFrames)

\* C15, amended: of the silent frames that follow a speech frame one frame
\* duration apart, the one that finalizes the utterance is number
\* ceil(endSilenceConfirmSec / frameDurationSec) + 1, the first silent frame
\* being number 1 (it starts the timer), and no earlier or later one.
C15_FinalizedOneFrameAfterCeil ==
    SilentFrame /\ last_cb.apart =>
        (last_cb.did.finalized <=> last_cb.silent_run = ConfirmFrames + 1)

\* C15 witness: an utterance is finalized, the frame duration not dividing
\* the confirmation time
C15_Witness ==
    /\ SilentFrame
    /\ last_cb.apart
    /\ last_cb.did.finalized
    /\ ConfirmFrames * frame_ms > END_SILENCE_CONFIRM_MS
    /\ last_cb.silent_run = ConfirmFrames + 1

\* C16: when the end of speech is confirmed, inSpeech is false, the
\* pending-end timestamp is cleared and the buffer is empty; an utterance
\* shorter than minUtteranceSec is not transcribed and leaves the chat history
\* as it was, an utterance of at least minUtteranceSec is handed to the
\* transcription backend exactly once.
C16_ShortUtteranceDiscarded ==
    last_cb.frame > 0 /\ last_cb.did.finalized =>
        /\ ~_in_speech
        /\ _pending_end_ts = None
        /\ _current_utt = 0
        /\ IF UtteranceMs < MIN_UTTERANCE_MS
           THEN /\ last_cb.did.transcribe_calls = 0
                /\ last_cb.did.llm_calls = 0
                /\ _chat_messages = last_cb.before.chat
           ELSE last_cb.did.transcribe_calls = 1

\* C16 witness: the end of an utterance of one 400 ms frame is confirmed
C16_Witness ==
    /\ last_cb.frame > 0
    /\ last_cb.did.finalized
    /\ last_cb.before.in_speech
    /\ last_cb.before.utt > 0
    /\ UtteranceMs < MIN_UTTERANCE_MS

\* what the transcription backend handed to the last callback, as a text
\* ("" when it returned None)
Transcript ==
    IF last_cb.f.transcript.text = None THEN <<>> ELSE last_cb.f.transcript.text[1]

\* the transcription backend was called and failed, or its transcript is
\* absent, empty, blank or a placeholder in any case
UnusableTranscript ==
    /\ last_cb.frame > 0
    /\ last_cb.did.transcribe_calls = 1
    /\ \/ last_cb.f.transcript.raises
       \/ last_cb.f.transcript.text = None
       \/ strip(Transcript) = <<>>
       \/ lower(strip(Transcript))
              \in {<<"*music*">>, <<"(empty)">>, <<"[empty]">>}

UsableTranscript ==
    last_cb.frame > 0 /\ last_cb.did.transcribe_calls = 1 /\ ~UnusableTranscript

\* the reply the LLM backend yielded to the last callback, as a text
Reply ==
    IF last_cb.f.response.kind = "object" THEN str_of_object
    ELSE last_cb.f.response.text

\* the LLM backend raised, returned None or yielded a reply that is empty
\* once surrounding whitespace is removed
LlmFailed ==
    \/ last_cb.f.response.kind \in {"raise", "none"}
    \/ strip(Reply) = <<>>

\* the rate the personality configures: its speed, 80 if that is no number
ConfiguredRate ==
    IF _personality_cfg.speed # None /\ _personality_cfg.speed[1].number
    THEN _personality_cfg.speed[1].value
    ELSE 80

Message(role, content) == [role |-> role, content |-> content, stale |-> FALSE]

\* a text without tag tokens and NUL characters, trimmed
TagStripped(text) ==
    strip(SelectSeq(text, LAMBDA t : t \notin TurnTags \cup PipeTags \cup {NUL}))

\* C17 as stated: after a handled utterance with a usable transcript and a
\* non-empty reply the chat history is the one before it followed by
\* {user, transcript} and {assistant, reply}, and speak was called exactly
\* once, with the tag-stripped reply and the configured rate.
C17_HistoryHoldsTAndR ==
    /\ UsableTranscript
    /\ last_cb.f.response.kind \notin {"raise", "none"}
    /\ Reply # <<>>
    =>
        /\ _chat_messages =
               last_cb.before.chat
               \o <<Message("user", Transcript), Message("assistant", Reply)>>
        /\ last_cb.did.said = <<[text |-> TagStripped(Reply), rate |-> ConfiguredRate]>>

\* C17, amended: after a handled utterance with a usable transcript and a
\* reply that is not blank the chat history is the one before it followed by
\* {user, transcript trimmed} and {assistant, reply trimmed}, the LLM was
\* asked once and speak was called exactly once, with the tag-stripped reply
\* and the configured rate.
C17_HistoryHoldsTrimmedTAndR ==
    UsableTranscript /\ ~LlmFailed =>
        /\ _chat_messages =
               last_cb.before.chat
               \o <<Message("user", strip(Transcript)),
                    Message("assistant", strip(Reply))>>
        /\ last_cb.did.said = <<[text |-> TagStripped(Reply), rate |-> ConfiguredRate]>>
        /\ last_cb.did.llm_calls = 1

\* C17 witness: a reply with tag tokens and surrounding whitespace to a
\* transcript with surrounding whitespace, under a personality with a prompt
C17_Witness ==
    /\ UsableTranscript
    /\ ~LlmFailed
    /\ strip(Transcript) # Transcript
    /\ TagStripped(Reply) # strip(Reply)
    /\ TagStripped(Reply) # <<>>
    /\ last_cb.before.chat # <<>>
    /\ ConfiguredRate # 80

C19_LlmFailureKeepsUserTurnOnly ==
    UsableTranscript /\ LlmFailed =>
        /\ _chat_messages =
               Append(last_cb.before.chat, Message("user", strip(Transcript)))
        /\ last_cb.did.said = <<>>
        /\ _quiet_until_ts = last_cb.before.quiet_until
        /\ last_cb.did.llm_calls = 1

\* C19 witness: the reply is whitespace only
C19_Witness ==
    /\ UsableTranscript
    /\ LlmFailed
    /\ last_cb.f.response.kind = "str"
    /\ Reply # <<>>

----------------------------------------------------------------------------
\* Speech output: Speaker.say, Speaker._say_worker and the handler that
\* speaks the reply

\* bound on the _say_worker threads alive at once
MaxSay == 2

\* how long one `say` process plays, in ms
PlayTimes == {quiet_duration_ms, 10 * quiet_duration_ms}

\* what transcribe() and query_ollama() hand to the handler
SayTranscripts == {<<<<"*MUSIC*">>>>, <<<<" ", "Hello", " ">>>>}

SayResponses ==
    {Response("none", <<>>), Response("str", <<"hi", " ", "there">>),
     Response("str", <<"<end_of_turn>">>)}

\* Speaker.say: nothing for an empty text, otherwise a daemon thread that runs
\* _say_worker is started and the caller goes on at once
say(threads, text) ==
    IF text = <<>> THEN threads
    ELSE Append(threads, [text |-> text, pc |-> "waiting"])

RECURSIVE say_each(_, _)
say_each(threads, said) ==
    IF said = <<>> THEN threads
    ELSE say_each(say(threads, Head(said).text), Tail(said))

InitSay == InitConv

\* the callback has confirmed the end of an utterance and transcribe() has
\* returned: _process_transcript from its first line to its last
ProcessTranscript ==
    /\ _conversation_thread = "running"
    /\ ~_conversation_stop_event
    /\ handler.pc = "idle"
    /\ \E text \in SayTranscripts, response \in SayResponses, took \in BackendTimes :
         \E R \in {_process_transcript(CurS, text, response, _speech_rate,
                                       now + took)} :
            /\ Len(R.chat) <= MaxChatLen
            /\ Len(say_each(say_threads, R.said)) <= MaxSay
            /\ now + took <= MaxTime
            /\ now' = now + took
            /\ _chat_messages' = R.chat
            /\ _quiet_until_ts' = R.quiet_until
            /\ say_threads' = say_each(say_threads, R.said)
    /\ UNCHANGED <<_state, radar_serial, radar_reader, _latest,
                   _last_presence_ts, _thread, _stop_event, seq_running,
                   seq_stop_event, seq_thread, seq_orphans, _conversation_thread,
                   _conversation_stop_event, handler, conv_orphans,
                   _system_prompt, _speech_rate, audio_vars, tick_log, dir_call,
                   last_valid_sample_ts, fn, leds, motors,
                   _last_cmd_time, hw_call, seq_call, set_call, pos, radar_line>>

\* _say_worker gets _say_lock, which no other worker holds, and starts `say`
SayWorkerPlay ==
    /\ \E i \in DOMAIN say_threads :
         /\ say_threads[i].pc = "waiting"
         /\ \A j \in DOMAIN say_threads : say_threads[j].pc # "playing"
         /\ say_threads' = [say_threads EXCEPT ![i].pc = "playing"]
    /\ UNCHANGED <<now, _state, radar_serial, radar_reader, _latest,
                   _last_presence_ts, _thread, _stop_event, seq_running,
                   seq_stop_event, seq_thread, seq_orphans, _conversation_thread,
                   _conversation_stop_event, handler, conv_orphans,
                   _chat_messages, _quiet_until_ts, _system_prompt, _speech_rate,
                   audio_vars, tick_log, dir_call, last_valid_sample_ts, fn, leds, motors,
                   _last_cmd_time, hw_call, seq_call, set_call, pos, radar_line>>

\* `say` has played the text to its end: subprocess.run returns, the lock is
\* released and the thread ends
SayWorkerDone ==
    /\ \E i \in DOMAIN say_threads, played \in PlayTimes :
         /\ say_threads[i].pc = "playing"
         /\ now + played <= MaxTime
         /\ now' = now + played
         /\ say_threads' = SubSeq(say_threads, 1, i - 1)
                           \o SubSeq(say_threads, i + 1, Len(say_threads))
    /\ UNCHANGED <<_state, radar_serial, radar_reader, _latest,
                   _last_presence_ts, _thread, _stop_event, seq_running,
                   seq_stop_event, seq_thread, seq_orphans, _conversation_thread,
                   _conversation_stop_event, handler, conv_orphans,
                   _chat_messages, _quiet_until_ts, _system_prompt, _speech_rate,
                   audio_vars, tick_log, dir_call, last_valid_sample_ts, fn, leds, motors,
                   _last_cmd_time, hw_call, seq_call, set_call, pos, radar_line>>

NextSay ==
    \/ ProcessTranscript
    \/ SayWorkerPlay
    \/ SayWorkerDone

SpecSay == InitSay /\ [][NextSay]_vars

\* C21 as stated: quietUntil is assigned only after the reply has been played
\* to its end: a step that assigns quietUntil leaves behind no speech that it
\* started and that has not ended.
C21_QuietSetAfterPlayback ==
    [][_quiet_until_ts' # _quiet_until_ts
          => Len(say_threads') <= Len(say_threads)]_vars

\* C21 witness of the fault: the quiet window of the last reply is over and
\* that reply has not been played to its end, or has not begun to play
C21_QuietWindowOverBeforePlaybackEnds ==
    /\ say_threads # <<>>
    /\ _quiet_until_ts > 0
    /\ now >= _quiet_until_ts
    /\ _chat_messages # <<>>
    /\ _chat_messages[Len(_chat_messages)].role = "assistant"
    /\ say_threads[Len(say_threads)].text =
           cleaned_reply(_chat_messages[Len(_chat_messages)].content)

----------------------------------------------------------------------------
\* The conversation across visits: the poller stops and starts it while
\* callbacks of earlier streams may still be inside transcribe or the LLM call

InitTalk ==
    /\ InitConv
    /\ RMS_GATE = 0
    /\ frame_ms = 4 * poll_interval_ms

\* AudioFinalize in the callback of the current stream, whatever the callbacks
\* of abandoned streams are doing: each stream has its own callback thread
AudioFinalizeAny ==
    /\ _conversation_thread = "running"
    /\ handler.pc = "idle"
    /\ Len(conv_orphans) <= MaxOrphanLoops
    /\ Len(_chat_messages) + pending_all(conv_orphans) + 2 <= MaxChatLen
    /\ handler' = [pc |-> "transcribing", stale |-> FALSE]
    /\ UNCHANGED <<now, _state, radar_serial, radar_reader, _latest,
                   _last_presence_ts, _thread, _stop_event, seq_running,
                   seq_stop_event, seq_thread, seq_orphans, _conversation_thread,
                   _conversation_stop_event, conv_orphans, _chat_messages,
                   _quiet_until_ts, _system_prompt, _speech_rate,
                   audio_vars, ext_vars, tick_log, dir_call,
                   last_valid_sample_ts, fn>>

NextTalk ==
    \/ RadarPoll
    \/ Tick
    \/ SeqWorkerExit
    \/ ConvLoopBegin
    \/ AudioFinalizeAny
    \/ TranscribeReturn
    \/ LlmReturn

SpecTalk == InitTalk /\ [][NextTalk]_vars

\* callbacks that are inside the handling of an utterance
InFlight == (IF handler.pc # "idle" THEN 1 ELSE 0) + Len(conv_orphans)

\* C22 as stated: at any time at most one audio callback is in flight and at
\* most one utterance is being handled, whatever stops and starts of the
\* conversation came before.
C22_OneCallbackInFlight == InFlight <= 1

\* C22 witness of the fault: the callback of the stream opened by the last
\* _start_conversation handles an utterance while the callback of a stream
\* whose loop was stopped earlier is still handling its own
C22_TwoUtterancesInHandling ==
    /\ _conversation_thread = "running"
    /\ handler.pc # "idle"
    /\ conv_orphans # <<>>
    /\ \A i \in DOMAIN conv_orphans : conv_orphans[i].pc # "idle"

\* C23 as stated: the poller never resets the chat history while an audio
\* callback is between its accesses to it: no callback in flight has had the
\* history reset under it.
C23_NoResetUnderCallback ==
    \A k \in 0..Len(conv_orphans) : ~handler_of(k).stale

\* C23 witness of the fault: the director's IDLE branch has reset the history
\* after a callback appended the user turn to it and before that callback,
\* still inside query_ollama, appends the reply
C23_ResetBetweenUserAndReply ==
    /\ dir_call.state = IDLE
    /\ \E k \in 0..Len(conv_orphans) :
         /\ handler_of(k).pc = "llm"
         /\ handler_of(k).stale
    /\ \A i \in DOMAIN _chat_messages : _chat_messages[i].role # "user"

----------------------------------------------------------------------------
\* Actuators: LEDState, LEDController, MotorState, MotorController and the
\* places that call the controllers.  A Timer is a pending entry
\* [at, cmd]: when it is due and which command of its actuator started it.

\* MotorController._MIN_CMD_INTERVAL, in ms
MIN_CMD_INTERVAL_MS == 100

\* bound on the calls of the controllers in one run
MaxCalls == 3

\* hwMap.json as loaded: the addresses that have a state object, and
\* addresses a Sequence path names that have none
LedRegistered == {"B0"}
LedUnknown == {"E4"}
MotorRegistered == {"B1"}
MotorUnknown == {"E3"}

\* what callers pass
Brightnesses == {0, 128}
FadeTimes == {0, 400}
MotorCommands ==
    {[op |-> "rotate", arg |-> 50, duration_ms |-> 0],
     [op |-> "stop", arg |-> 0, duration_ms |-> 0],
     [op |-> "move_to", arg |-> 100, duration_ms |-> 0],
     [op |-> "move_to", arg |-> 100, duration_ms |-> 1000]}

\* time between the end of one call and the beginning of the next
CallGaps == {0, MIN_CMD_INTERVAL_MS \div 2}

min(values) == CHOOSE v \in values : \A w \in values : v <= w

clamp(lo, hi, v) == max({lo, min({hi, v})})

\* a write to the serial port of the actuator at now_ts: the time of the
\* write and the smallest distance between two writes so far
sent(A, now_ts) ==
    [A EXCEPT !.sent_at = <<now_ts>>,
              !.gap = IF A.sent_at = None THEN @
                      ELSE IF @ = None THEN <<now_ts - A.sent_at[1]>>
                      ELSE <<min({@[1], now_ts - A.sent_at[1]})>>]

\* a command of the actuator begins: it is the latest, its timer has not run
commanded(A) == [A EXCEPT !.cmds = @ + 1, !.own_done = FALSE]

without_timer(A, i) ==
    [A EXCEPT !.timers = SubSeq(@, 1, i - 1) \o SubSeq(@, i + 1, Len(@))]

\* LEDState.__init__; its first _send is no caller's command
LEDState ==
    [status |-> "off", brightness |-> 0, duration_ms |-> 0, end_at |-> None,
     timers |-> <<>>, cmds |-> 0, own_done |-> TRUE, sent_at |-> None,
     gap |-> None]

on_or_off(brightness) == IF brightness > 0 THEN "on" ELSE "off"

\* LEDState.set_brightness
led_set_brightness(L, brightness, duration_ms, now_ts) ==
    LET b == clamp(0, 255, brightness)
        d == max({0, duration_ms})
        C == [commanded(L) EXCEPT !.brightness = b, !.duration_ms = d,
                                  !.end_at = <<now_ts + d>>]
    IN  IF d = 0
        THEN sent([C EXCEPT !.status = on_or_off(b), !.own_done = TRUE], now_ts)
        ELSE [sent([C EXCEPT !.status = "fading"], now_ts) EXCEPT
                 !.timers = Append(@, [at |-> now_ts + d, cmd |-> C.cmds])]

\* _finish of LEDState.set_brightness, run by the i-th pending Timer
led_finish(L, i) ==
    [without_timer(L, i) EXCEPT
        !.status = on_or_off(L.brightness),
        !.own_done = @ \/ L.timers[i].cmd = L.cmds]

\* MotorState.__init__
MotorState ==
    [status |-> "stopped", direction |-> None, rpm |-> 0, position |-> 0,
     duration_ms |-> 0, end_at |-> None, last |-> "none",
     timers |-> <<>>, cmds |-> 0, own_done |-> TRUE, sent_at |-> None,
     gap |-> None]

\* MotorState.rotate
motor_rotate(M, direction, rpm, now_ts) ==
    sent([commanded(M) EXCEPT !.direction = <<direction>>,
                              !.rpm = clamp(1, 100, rpm), !.duration_ms = 0,
                              !.position = 0, !.status = "rotating",
                              !.end_at = None, !.last = "rotate"], now_ts)

\* MotorState.stop
motor_stop(M, now_ts) ==
    sent([commanded(M) EXCEPT !.status = "stopped", !.end_at = <<now_ts>>,
                              !.last = "stop"], now_ts)

\* MotorState.move_to
motor_move_to(M, direction, position, duration_ms, now_ts) ==
    LET d == max({0, duration_ms})
        C == sent([commanded(M) EXCEPT !.direction = <<direction>>,
                                       !.position = position,
                                       !.duration_ms = d, !.rpm = 0,
                                       !.end_at = <<now_ts + d>>,
                                       !.last = "move_to"], now_ts)
    IN  IF d > 0
        THEN [C EXCEPT !.status = "stepping",
                       !.timers = Append(@, [at |-> now_ts + d, cmd |-> C.cmds])]
        ELSE [C EXCEPT !.status = "stopped", !.own_done = TRUE]

\* _finish of MotorState.move_to, run by the i-th pending Timer
motor_finish(M, i) ==
    [without_timer(M, i) EXCEPT
        !.status = "stopped",
        !.own_done = @ \/ M.timers[i].cmd = M.cmds]

\* LEDController.set_brightness, under the controller's lock
LEDController_set_brightness(S, address, brightness, duration_ms, now_ts) ==
    IF address \notin DOMAIN S
    THEN [leds |-> S, raised |-> "KeyError"]
    ELSE [leds |-> [S EXCEPT ![address] =
                       led_set_brightness(@, brightness, duration_ms, now_ts)],
          raised |-> "none"]

\* MotorController._throttle entered at now_ts: the time at which it returns
_throttle(last_cmd_time, now_ts) ==
    IF now_ts - last_cmd_time < MIN_CMD_INTERVAL_MS
    THEN now_ts + (MIN_CMD_INTERVAL_MS - (now_ts - last_cmd_time))
    ELSE now_ts

\* MotorController.rotate / move_to / stop, under the controller's lock
MotorController_command(S, last_cmd_time, address, c, now_ts) ==
    IF address \notin DOMAIN S
    THEN [motors |-> S, last_cmd_time |-> last_cmd_time, at |-> now_ts,
          raised |-> "KeyError"]
    ELSE LET t == _throttle(last_cmd_time, now_ts)
         IN  [motors |-> [S EXCEPT ![address] =
                 CASE c.op = "rotate" -> motor_rotate(@, "CW", c.arg, t)
                   [] c.op = "stop" -> motor_stop(@, t)
                   [] c.op = "move_to" ->
                          motor_move_to(@, "CW", c.arg, c.duration_ms, t)],
              last_cmd_time |-> t, at |-> t, raised |-> "none"]

\* The places that call the controllers: the thread they run in, the
\* exceptions their except clauses name, the addresses they may pass
LedSites ==
    {[site |-> "fade_in", task |-> "worker",
      handles |-> {"KeyError", "Exception"},
      addrs |-> LedRegistered \cup LedUnknown],
     [site |-> "fade_out", task |-> "worker", handles |-> {"Exception"},
      addrs |-> LedRegistered \cup LedUnknown],
     [site |-> "start", task |-> "poller", handles |-> {"Exception"},
      addrs |-> LedRegistered],
     [site |-> "director", task |-> "poller",
      handles |-> {"KeyError", "Exception"}, addrs |-> LedRegistered],
     [site |-> "stop", task |-> "stop",
      handles |-> {"KeyError", "Exception"}, addrs |-> LedRegistered]}

\* _drive_motor_for_led returns before the call for a motor that is not
\* registered; "api" is a call of the controller that nothing guards
MotorSites ==
    {[site |-> "drive", task |-> "worker", handles |-> {"Exception"},
      addrs |-> MotorRegistered],
     [site |-> "stop", task |-> "stop", handles |-> {"Exception"},
      addrs |-> MotorRegistered],
     [site |-> "api", task |-> "caller", handles |-> {},
      addrs |-> MotorRegistered \cup MotorUnknown]}

\* an except clause that catches only the class it names
caught_by_name(handles, raised) == raised \in handles

\* except KeyError / except Exception: KeyError is an Exception
caught(handles, raised) == raised \in handles \/ "Exception" \in handles

NoHwCall ==
    [n |-> 0, kind |-> "none", site |-> "none", task |-> "none",
     address |-> "none", raised |-> "none", dead |-> {}]

hw_called(kind, s, address, raised) ==
    [n |-> hw_call.n + 1, kind |-> kind, site |-> s.site, task |-> s.task,
     address |-> address, raised |-> raised,
     dead |-> IF raised = "none" \/ caught(s.handles, raised)
              THEN hw_call.dead ELSE hw_call.dead \cup {s.task}]

\* when the pending Timers are due
DueTimes ==
    UNION {{leds[a].timers[i].at : i \in DOMAIN leds[a].timers} : a \in DOMAIN leds}
    \cup UNION {{motors[a].timers[i].at : i \in DOMAIN motors[a].timers} :
                   a \in DOMAIN motors}

\* no Timer is due before t
NotPast(t) == \A at \in DueTimes : t <= at

InitHw ==
    /\ InitBase({NoPersonality}, {FALSE})
    /\ fn = NoFn
    /\ RMS_GATE = 0
    /\ frame_ms = poll_interval_ms
    /\ say_threads = <<>>
    /\ leds = [a \in LedRegistered |-> LEDState]
    /\ motors = [a \in MotorRegistered |-> MotorState]
    /\ _last_cmd_time = 0
    /\ hw_call = NoHwCall
    /\ seq_call = <<>>
    /\ set_call = <<>>
    /\ pos = <<>>
    /\ radar_line = <<>>

\* one call of LEDController.set_brightness from one of the calling places
LedCommand ==
    /\ hw_call.n < MaxCalls
    /\ \E s \in LedSites, dt \in CallGaps :
         /\ s.task \notin hw_call.dead
         /\ NotPast(now + dt)
         /\ \E address \in s.addrs, b \in Brightnesses, d \in FadeTimes :
            \E r \in {LEDController_set_brightness(leds, address, b, d, now + dt)} :
               /\ now' = now + dt
               /\ leds' = r.leds
               /\ hw_call' = hw_called("led", s, address, r.raised)
    /\ UNCHANGED <<_state, radar_serial, radar_reader, _latest,
                   _last_presence_ts, _thread, _stop_event, seq_running,
                   seq_stop_event, seq_thread, seq_orphans, _conversation_thread,
                   _conversation_stop_event, handler, conv_orphans,
                   _chat_messages, _quiet_until_ts, _system_prompt, _speech_rate,
                   audio_vars, tick_log, dir_call, last_valid_sample_ts, fn,
                   seq_call, set_call, pos, radar_line, say_threads, motors, _last_cmd_time>>

\* one call of MotorController.rotate, move_to or stop
MotorCommand ==
    /\ hw_call.n < MaxCalls
    /\ \E s \in MotorSites, dt \in CallGaps :
         /\ s.task \notin hw_call.dead
         /\ \E address \in s.addrs, c \in MotorCommands :
            \E r \in {MotorController_command(motors, _last_cmd_time, address,
                                              c, now + dt)} :
               /\ NotPast(r.at)
               /\ now' = r.at
               /\ motors' = r.motors
               /\ _last_cmd_time' = r.last_cmd_time
               /\ hw_call' = hw_called("motor", s, address, r.raised)
    /\ UNCHANGED <<_state, radar_serial, radar_reader, _latest,
                   _last_presence_ts, _thread, _stop_event, seq_running,
                   seq_stop_event, seq_thread, seq_orphans, _conversation_thread,
                   _conversation_stop_event, handler, conv_orphans,
                   _chat_messages, _quiet_until_ts, _system_prompt, _speech_rate,
                   audio_vars, tick_log, dir_call, last_valid_sample_ts, fn,
                   seq_call, set_call, pos, radar_line, say_threads, leds>>

\* the Timer that is due first runs its _finish
TimerFire ==
    /\ \/ \E a \in DOMAIN leds : \E i \in DOMAIN leds[a].timers :
            /\ leds[a].timers[i].at = min(DueTimes)
            /\ now' = max({now, leds[a].timers[i].at})
            /\ leds' = [leds EXCEPT ![a] = led_finish(@, i)]
            /\ UNCHANGED motors
       \/ \E a \in DOMAIN motors : \E i \in DOMAIN motors[a].timers :
            /\ motors[a].timers[i].at = min(DueTimes)
            /\ now' = max({now, motors[a].timers[i].at})
            /\ motors' = [motors EXCEPT ![a] = motor_finish(@, i)]
            /\ UNCHANGED leds
    /\ UNCHANGED <<_state, radar_serial, radar_reader, _latest,
                   _last_presence_ts, _thread, _stop_event, seq_running,
                   seq_stop_event, seq_thread, seq_orphans, _conversation_thread,
                   _conversation_stop_event, handler, conv_orphans,
                   _chat_messages, _quiet_until_ts, _system_prompt, _speech_rate,
                   audio_vars, tick_log, dir_call, last_valid_sample_ts, fn,
                   seq_call, set_call, pos, radar_line, say_threads, _last_cmd_time, hw_call>>

NextHw ==
    \/ LedCommand
    \/ MotorCommand
    \/ TimerFire

SpecHw == InitHw /\ [][NextHw]_vars

\* the writes to one actuator were never closer than the minimum interval
Apart(A) == A.gap = None \/ A.gap[1] >= MIN_CMD_INTERVAL_MS

\* C24 as stated: any two commands to the same LED or motor address reach the
\* device at least the minimum inter-command interval (100 ms) apart.
C24_CommandsApart ==
    /\ \A a \in DOMAIN leds : Apart(leds[a])
    /\ \A a \in DOMAIN motors : Apart(motors[a])

\* C24 witness of the fault: two commands were written to the same LED with
\* no time between them
C24_LedCommandsBackToBack ==
    \E a \in DOMAIN leds :
        /\ leds[a].cmds >= 2
        /\ leds[a].gap = <<0>>
        /\ hw_call.kind = "led"
        /\ hw_call.raised = "none"

\* the status the latest command of an LED stands for at the present time;
\* "fading" may linger until the Timer of that command has run
led_implied(L) ==
    {IF L.end_at # None /\ now < L.end_at[1]
     THEN "fading" ELSE on_or_off(L.brightness)}
    \cup (IF L.own_done THEN {} ELSE {"fading"})

\* the status the latest command of a motor stands for at the present time;
\* "stepping" may linger until the Timer of that command has run
motor_implied(M) ==
    {CASE M.last = "rotate" -> "rotating"
       [] M.last = "move_to" /\ now < M.end_at[1] -> "stepping"
       [] OTHER -> "stopped"}
    \cup (IF M.own_done THEN {} ELSE {"stepping"})

\* C25 as stated: whatever commands and completion timers have run, the
\* recorded status of every actuator is the one its most recent command
\* stands for; the timer of an earlier command does not change it.
C25_LastCommandWins ==
    /\ \A a \in DOMAIN leds : leds[a].status \in led_implied(leds[a])
    /\ \A a \in DOMAIN motors : motors[a].status \in motor_implied(motors[a])

\* C25 witness of the fault: a motor that was told to rotate after a move is
\* recorded as stopped by the timer of the move, and no timer is left to
\* change that
C25_RotatingMotorRecordedStopped ==
    \E a \in DOMAIN motors :
        /\ motors[a].last = "rotate"
        /\ motors[a].status = "stopped"
        /\ motors[a].timers = <<>>

\* C26: a command to an address that is not registered raises KeyError, writes
\* to no device, leaves every LED and motor state and the throttle clock as
\* they were, and ends neither the Sequence worker nor the poller nor stop().
C26_UnknownAddressHarmless ==
    [][(/\ hw_call'.n = hw_call.n + 1
        /\ hw_call'.address \notin LedRegistered \cup MotorRegistered)
          => /\ hw_call'.raised = "KeyError"
             /\ leds' = leds
             /\ motors' = motors
             /\ _last_cmd_time' = _last_cmd_time
             /\ hw_call'.dead \cap {"worker", "poller", "stop"} = {}]_vars

\* C26 witness: the Sequence worker's fade-out names an LED that is not
\* registered, after a motor command has set the throttle clock and while a
\* fade is under way
C26_Witness ==
    /\ hw_call.raised = "KeyError"
    /\ hw_call.site = "fade_out"
    /\ hw_call.address \in LedUnknown
    /\ "worker" \notin hw_call.dead
    /\ _last_cmd_time > 0
    /\ \E a \in DOMAIN leds : leds[a].status = "fading"

----------------------------------------------------------------------------
\* The director's branch for a state that is none of the four, on its own:
\* one call on an installation drawn from these situations

\* state values the director does not know
UnknownStates == {"UNKNOWN", "engaged"}

\* the sequence that is running, if any
DirRunning == Roles \cup {"none"}

\* the conversation before the call: loop thread and callback
DirConversations ==
    {[thread |-> "none", pc |-> "idle"], [thread |-> "running", pc |-> "idle"],
     [thread |-> "running", pc |-> "llm"]}

\* what the LEDs and motors were last told, one second before the call
DirLeds == {LEDState, led_set_brightness(LEDState, 128, 0, Epoch - 1000)}

DirMotors ==
    {MotorState, motor_rotate(MotorState, "CW", 50, Epoch - 1000),
     motor_move_to(MotorState, "CW", 100, 0, Epoch - 1000)}

InitDir ==
    /\ now = Epoch
    /\ _state \in ValidStates
    /\ radar_serial = TRUE
    /\ radar_reader = "present"
    /\ _latest = None
    /\ _last_presence_ts = 0
    /\ _thread = "alive"
    /\ _stop_event = FALSE
    /\ \E running \in DirRunning :
         /\ seq_running = [r \in Roles |-> r = running]
         /\ seq_thread = [r \in Roles |-> IF r = running THEN "alive" ELSE "none"]
    /\ seq_stop_event = [r \in Roles |-> FALSE]
    /\ seq_orphans = [r \in Roles |-> 0]
    /\ \E c \in DirConversations :
         /\ _conversation_thread = c.thread
         /\ handler = [idle_handler EXCEPT !.pc = c.pc]
    /\ _conversation_stop_event = FALSE
    /\ conv_orphans = <<>>
    /\ _personality_cfg = NoPersonality
    /\ _system_prompt = system_prompt_of(_personality_cfg)
    /\ _speech_rate = default_rate
    /\ _in_speech = FALSE
    /\ _current_utt = 0
    /\ _rms_baseline = None
    /\ _pending_end_ts = None
    /\ cb = None
    /\ _chat_messages = _reset_chat_history(_system_prompt)
    /\ _quiet_until_ts = 0
    /\ tick_log = NoTick
    /\ dir_call = NoCall
    /\ last_valid_sample_ts = 0
    /\ fn = NoFn
    /\ RMS_GATE = 0
    /\ frame_ms = poll_interval_ms
    /\ say_threads = <<>>
    /\ leds \in [LedRegistered -> DirLeds]
    /\ motors \in [MotorRegistered -> DirMotors]
    /\ _last_cmd_time = 0
    /\ hw_call = NoHwCall
    /\ seq_call = <<>>
    /\ set_call = <<>>
    /\ pos = <<>>
    /\ radar_line = <<>>

\* lines 563-570: set_brightness(addr, 0, 2000) for every LED the controller
\* has; none of these addresses is unknown to it
all_leds_off(S, duration_ms, now_ts) ==
    [a \in DOMAIN S |->
        LEDController_set_brightness(S, a, 0, duration_ms, now_ts).leds[a]]

\* _apply_led_behavior_for(state, previous_state) with a state that is none
\* of the four: the last branch of the function, lines 545-570
DirectorUnknown ==
    /\ dir_call = NoCall
    /\ \E state \in UnknownStates, previous_state \in ValidStates,
          joined \in JoinOutcomes :
         \E D \in {_apply_led_behavior_for(CurD, state, previous_state,
                                           joined, FALSE)} :
            /\ Commit(D)
            /\ dir_call' = called(D, state, previous_state, _state)
    /\ leds' = all_leds_off(leds, 2000, now)
    /\ UNCHANGED <<now, _state, radar_serial, radar_reader, _latest,
                   _last_presence_ts, _thread, _stop_event, _quiet_until_ts,
                   _system_prompt, _speech_rate, audio_vars, tick_log,
                   last_valid_sample_ts, fn, seq_call, set_call, pos, radar_line,
                   say_threads, motors,
                   _last_cmd_time, hw_call>>

SpecDir == InitDir /\ [][DirectorUnknown]_vars

\* the director has been called with a state it does not know
CalledWithUnknown == dir_call.state \in UnknownStates

\* the LED's latest command, written in the call, is "off"
LedCommandedOff(L) == L.sent_at = <<now>> /\ L.brightness = 0

\* the motor's latest command, written in the call, is a stop or a move home
MotorCommandedNeutral(M) ==
    /\ M.sent_at = <<now>>
    /\ M.last = "stop" \/ (M.last = "move_to" /\ M.position = 0)

\* C27 as stated: after the director was called with a state it does not
\* recognize no Sequence is running, the conversation loop is stopped, and
\* every LED and every motor has been commanded to its off or neutral state.
C27_UnknownStateStopsAll ==
    CalledWithUnknown =>
        /\ \A r \in Roles : ~seq_running[r]
        /\ _conversation_thread = "none"
        /\ \A a \in DOMAIN leds : LedCommandedOff(leds[a])
        /\ \A a \in DOMAIN motors : MotorCommandedNeutral(motors[a])

\* C27 witness of the fault: after the call a motor goes on rotating, no
\* command having reached it, and the conversation loop is still running
\* because no Sequence was running when the director was called
C27_MotorRotatingConversationOn ==
    /\ CalledWithUnknown
    /\ \A r \in Roles : ~seq_running[r]
    /\ \A a \in DOMAIN leds : LedCommandedOff(leds[a])
    /\ \E a \in DOMAIN motors :
         motors[a].status = "rotating" /\ motors[a].sent_at # <<now>>
    /\ _conversation_thread = "running"

\* C28: for a previous state that is none of the four, _determine_state
\* returns IDLE whatever the distance, the time and the last presence, and it
\* returns: the call ends with a state, not with an exception.
C28_UnknownPreviousGivesIdle ==
    (fn.result # "pending" /\ fn.previous_state \notin ValidStates)
        => fn.result = IDLE

\* C28 witness: a visitor at 1.2 m, seen a second ago; from any of the four
\* states the answer would not be IDLE
C28_Witness ==
    /\ fn.previous_state = "UNKNOWN"
    /\ fn.result = IDLE
    /\ fn.distance_mm = <<1200>>
    /\ in_grace(fn.now_ts, fn.last_presence_ts)
    /\ \A s \in ValidStates :
         _determine_state(fn.distance_mm, s, fn.now_ts, fn.last_presence_ts) # IDLE

----------------------------------------------------------------------------
\* Sequence.start and Sequence.stop on their own, called in any order on the
\* four Sequence objects

MaxSeqCalls == 4

\* the engagement loop idle, no conversation, motors at rest; one Sequence or
\* none running, the LED dark or lit
InitSeq ==
    /\ InitDir
    /\ _state = "IDLE"
    /\ _conversation_thread = "none"
    /\ motors = [a \in MotorRegistered |-> MotorState]

\* how many calls of start or stop were made
seq_calls == IF seq_call = <<>> THEN 0 ELSE seq_call[1].n

seq_called(op, r, raised) ==
    <<[op |-> op, role |-> r, was_running |-> seq_running[r], raised |-> raised,
       n |-> seq_calls + 1]>>

\* Sequence.start(): nothing when _running; otherwise every LED is set to 0
\* over 500 ms, then the worker is started.  raises: Thread.start() fails
SequenceStart ==
    /\ seq_calls < MaxSeqCalls
    /\ \E r \in Roles, raises \in BOOLEAN :
         \E q \in {seq_start(CurD.sequences[r], raises)} :
            /\ seq_running' = [seq_running EXCEPT ![r] = q.running]
            /\ seq_stop_event' = [seq_stop_event EXCEPT ![r] = q.stop_event]
            /\ seq_thread' = [seq_thread EXCEPT ![r] = q.thread]
            /\ seq_orphans' = [seq_orphans EXCEPT ![r] = q.orphans]
            /\ q.orphans <= MaxOrphans
            /\ leds' = IF seq_running[r] THEN leds
                       ELSE all_leds_off(leds, 500, now)
            /\ seq_call' = seq_called("start", r, raises /\ ~seq_running[r])
    /\ UNCHANGED <<now, _state, radar_serial, radar_reader, _latest,
                   _last_presence_ts, _thread, _stop_event, _conversation_thread,
                   _conversation_stop_event, handler, conv_orphans,
                   _chat_messages, _quiet_until_ts, _system_prompt, _speech_rate,
                   audio_vars, tick_log, dir_call, last_valid_sample_ts, fn,
                   say_threads, motors, _last_cmd_time, hw_call, set_call,
                   pos, radar_line>>

\* Sequence.stop(): nothing when not _running; otherwise the stop event is
\* set, the worker is joined for at most 1 s and _running is cleared
SequenceStop ==
    /\ seq_calls < MaxSeqCalls
    /\ \E r \in Roles, joined \in JoinOutcomes :
         \E q \in {seq_stop(CurD.sequences[r], r, joined)} :
            /\ seq_running' = [seq_running EXCEPT ![r] = q.running]
            /\ seq_stop_event' = [seq_stop_event EXCEPT ![r] = q.stop_event]
            /\ seq_thread' = [seq_thread EXCEPT ![r] = q.thread]
            /\ seq_orphans' = [seq_orphans EXCEPT ![r] = q.orphans]
            /\ seq_call' = seq_called("stop", r, FALSE)
    /\ UNCHANGED <<now, _state, radar_serial, radar_reader, _latest,
                   _last_presence_ts, _thread, _stop_event, _conversation_thread,
                   _conversation_stop_event, handler, conv_orphans,
                   _chat_messages, _quiet_until_ts, _system_prompt, _speech_rate,
                   audio_vars, tick_log, dir_call, last_valid_sample_ts, fn,
                   say_threads, leds, motors, _last_cmd_time, hw_call,
                   set_call, pos, radar_line>>

NextSeq ==
    \/ SequenceStart
    \/ SequenceStop
    \/ SeqWorkerExit

SpecSeq == InitSeq /\ [][NextSeq]_vars

\* what a Sequence and its calls can change
seq_state ==
    <<seq_running, seq_stop_event, seq_thread, seq_orphans, leds, motors,
      _last_cmd_time, hw_call, say_threads>>

\* C29: start() of a Sequence that is running and stop() of a Sequence that
\* is not running start no worker, send no actuator command, change no state
\* and do not raise.
C29_StartStopIdempotent ==
    [][(/\ seq_call' # seq_call
        /\ \/ seq_call'[1].op = "start" /\ seq_running[seq_call'[1].role]
           \/ seq_call'[1].op = "stop" /\ ~seq_running[seq_call'[1].role])
          => /\ UNCHANGED seq_state
             /\ ~seq_call'[1].raised]_vars

\* C29 witness: start() was called on a running Sequence whose worker is alive
\* while an LED is lit and Thread.start() would have failed
C29_Witness ==
    /\ seq_call # <<>>
    /\ seq_call[1].op = "start"
    /\ seq_call[1].was_running
    /\ seq_running[seq_call[1].role]
    /\ seq_thread[seq_call[1].role] = "alive"
    /\ \E a \in DOMAIN leds : leds[a].brightness > 0

----------------------------------------------------------------------------
\* Cancellation of a Sequence worker.  A worker that has reached
\* "while not self._stop_event.is_set()" with the event set returns, and a
\* thread that can take that step is scheduled sooner or later: weak fairness
\* of the worker's exit.  The callers of start and stop owe nothing.
SpecCancel == InitSeq /\ [][NextSeq]_vars /\ WF_vars(SeqWorkerExit)

\* workers of role r whose stop() has been called and that have not returned:
\* those no longer in _thread and, while the event is set, the one in _thread
stop_pending(r) ==
    seq_orphans[r] + (IF seq_stop_event[r] /\ seq_thread[r] = "alive" THEN 1 ELSE 0)

\* C30: once stop has been requested for a Sequence, its worker loop exits in
\* the end, whatever calls of start or stop follow: a worker left behind by a
\* stop() does not stay alive for ever with the stop event clear.
C30_StoppedWorkerExits ==
    \A r \in Roles :
        (stop_pending(r) > 0) ~> (stop_pending(r) = 0 \/ seq_stop_event[r])

\* C30 witness: a worker whose stop() was called is alive, its Sequence has
\* been started again and the stop event it polls is clear
C30_StoppedWorkerSeesEventClear ==
    \E r \in Roles :
        /\ seq_orphans[r] > 0
        /\ ~seq_stop_event[r]
        /\ seq_running[r]
        /\ seq_call # <<>>
        /\ seq_call[1].op = "start"
        /\ seq_call[1].role = r

----------------------------------------------------------------------------
\* The presence clock: EngagementController._last_presence_ts

\* the sample the poller is about to read is there, positive and in range
SampleInRange ==
    /\ _latest # None
    /\ _latest[1] > 0
    /\ _latest[1] <= idle_threshold_mm

----------------------------------------------------------------------------
\* The engagement state: start, stop, the radar, the poller, the Sequence
\* workers and the start of the conversation loop, with one more operation, a
\* call of HWState.set_state with a value that is none of the four states.
\* The audio callback and what it calls hold no reference to HWState.

InitState ==
    /\ InitWith({NoPersonality}, BOOLEAN)
    /\ fn = NoFn
    /\ RMS_GATE = 0
    /\ frame_ms = poll_interval_ms

SetStateForeign ==
    /\ \E new_state \in UnknownStates :
         /\ _state' = set_state(_state, new_state)
         /\ set_call' = <<"foreign">>
    /\ UNCHANGED <<now, radar_serial, radar_reader, _latest, _last_presence_ts,
                   _thread, _stop_event, seq_running, seq_stop_event, seq_thread,
                   seq_orphans, _conversation_thread, _conversation_stop_event,
                   handler, conv_orphans, _chat_messages, _quiet_until_ts,
                   _system_prompt, _speech_rate, audio_vars, tick_log, dir_call,
                   last_valid_sample_ts, fn, say_threads, leds, motors,
                   _last_cmd_time, hw_call, seq_call, pos, radar_line>>

NextState ==
    \/ Start
    \/ Stop
    \/ RadarPoll
    \/ Tick
    \/ TickCrash
    \/ TickNoRadar
    \/ SeqWorkerExit
    \/ ConvLoopBegin
    \/ SetStateForeign

SpecState == InitState /\ [][NextState]_vars

\* C34: the engagement state is always one of IDLE, APPROACHING, ENGAGED and
\* LEAVING and is IDLE until the poller's first tick; set_state with any other
\* value leaves it unchanged; it changes only in a poller tick, to the result
\* of that tick's _determine_state.
C34_StateOneOfFourSetByPoller ==
    /\ [](_state \in ValidStates)
    /\ [](tick_log = NoTick => _state = IDLE)
    /\ [][/\ set_call' # set_call => _state' = _state
          /\ _state' # _state
               => /\ tick_log' # tick_log
                  /\ _state' = tick_log'.computed]_vars

\* C34 witness: the poller has taken the state from ENGAGED to LEAVING and
\* set_state was then called with a value that is no state
C34_Witness ==
    /\ set_call = <<"foreign">>
    /\ tick_log.prev = ENGAGED
    /\ tick_log.computed = LEAVING
    /\ _state = LEAVING

----------------------------------------------------------------------------
\* The transitions the poller commits

\* the sample the poller is about to read is positive and within the engaged
\* threshold
SampleClose ==
    /\ _latest # None
    /\ _latest[1] > 0
    /\ _latest[1] <= engaged_threshold_mm

\* C35: over all sequences of poller ticks the committed state becomes
\* APPROACHING only from IDLE and LEAVING only from ENGAGED (never LEAVING
\* from IDLE or APPROACHING, never APPROACHING from ENGAGED or LEAVING), and a
\* single tick on a close sample commits ENGAGED from whatever state.
C35_ApproachFromIdleLeaveFromEngaged ==
    [][/\ _state' # _state /\ _state' = APPROACHING => _state = IDLE
       /\ _state' # _state /\ _state' = LEAVING => _state = ENGAGED
       /\ tick_log' # tick_log /\ SampleClose => _state' = ENGAGED]_vars

\* C35 witness: one tick took the state from LEAVING to ENGAGED
C35_Witness ==
    /\ tick_log.prev = LEAVING
    /\ tick_log.computed = ENGAGED
    /\ tick_log.ncalls = 1
    /\ _state = ENGAGED
    /\ dir_call.prev = LEAVING

----------------------------------------------------------------------------
\* Consistency of the segmenter state

\* C36: in every state of the conversation a pending-end timestamp is set
\* only while _in_speech is true, the utterance buffer is empty whenever
\* _in_speech is false, and the buffer grows only by the frame of a callback
\* that asked the VAD model and was answered "speech".
C36_SegmenterConsistent ==
    /\ [](_pending_end_ts # None => _in_speech)
    /\ [](~_in_speech => _current_utt = 0)
    /\ [][_current_utt' > _current_utt
            => /\ _current_utt' = _current_utt + 1
               /\ cb'[1].did.vad_calls = 1
               /\ cb'[1].f.vad
               /\ ~cb'[1].f.tts]_vars

\* C36 witness: an utterance of two frames was finalized by the last
\* callback, which left the buffer empty, no pending end and _in_speech false
C36_Witness ==
    /\ cb # None
    /\ cb[1].did.finalized
    /\ cb[1].before.utt = 2
    /\ cb[1].before.pending_end_ts # None
    /\ ~_in_speech
    /\ _current_utt = 0
    /\ _pending_end_ts = None

----------------------------------------------------------------------------
\* Greetings of a visit

\* C39 as stated: between two periods of IDLE the greeting is spoken at most
\* once.  The state LEAVING is entered only from ENGAGED, whose entry spoke the
\* visit's greeting, and is left for ENGAGED without passing through IDLE: a
\* greeting on the transition from LEAVING to ENGAGED is a second one.
C39_GreetedOncePerVisit ==
    ~(/\ dir_call.state = ENGAGED
      /\ dir_call.prev = LEAVING
      /\ dir_call.spoken = <<"greeting">>)

\* C39 amended: the greeting is spoken once on every entry to ENGAGED, from
\* IDLE, from APPROACHING, from LEAVING and at controller.start(), and on no
\* other call of the director.
C39_GreetedOnEveryEntry ==
    [][dir_call' # dir_call
         => /\ dir_call'.state = ENGAGED => dir_call'.spoken = <<"greeting">>
            /\ dir_call'.state # ENGAGED
                 => \A i \in DOMAIN dir_call'.spoken :
                        dir_call'.spoken[i] # "greeting"]_vars

\* C39 witness: the visitor stepped back and forward again; the tick back to
\* ENGAGED from LEAVING greeted once more, less than the grace window after
\* the last in-range sample before it
C39_Witness ==
    /\ dir_call.state = ENGAGED
    /\ dir_call.prev = LEAVING
    /\ dir_call.spoken = <<"greeting">>
    /\ tick_log.prev = LEAVING
    /\ tick_log.computed = ENGAGED
    /\ _state = ENGAGED
    /\ _conversation_thread # "none"

----------------------------------------------------------------------------
\* The radar reader and the poller, with the kind of each line kept

\* RadarReader._poll_loop on one answer to READ: an empty line, a line that
\* does not parse and an all-zero reading leave _latest as it is
latest_after(latest, line) ==
    IF line.kind # "fields" \/ (line.dist = 0 /\ line.rest = 0)
    THEN latest
    ELSE <<line.dist>>

\* what a line is to the reader
line_kind(line) ==
    IF line.kind # "fields" THEN line.kind
    ELSE IF line.dist = 0 /\ line.rest = 0 THEN "zero"
    ELSE "reading"

InitRadar ==
    /\ InitWith({NoPersonality}, {TRUE})
    /\ fn = NoFn
    /\ RMS_GATE = 0
    /\ frame_ms = poll_interval_ms

RadarRead ==
    /\ radar_reader = "present"
    /\ \E line \in RadarLines :
         /\ _latest' = latest_after(_latest, line)
         /\ radar_line' = <<line_kind(line)>>
    /\ UNCHANGED <<now, _state, radar_serial, radar_reader, _last_presence_ts,
                   _thread, _stop_event, seq_running, seq_stop_event, seq_thread,
                   seq_orphans, _conversation_thread, _conversation_stop_event,
                   handler, conv_orphans, _chat_messages, _quiet_until_ts,
                   _system_prompt, _speech_rate, audio_vars, tick_log, dir_call,
                   last_valid_sample_ts, fn, say_threads, leds, motors,
                   _last_cmd_time, hw_call, seq_call, set_call, pos>>

NextRadar ==
    \/ Start
    \/ RadarRead
    \/ Tick
    \/ SeqWorkerExit
    \/ ConvLoopBegin

\* the poller is not stopped and sleeps poll_interval between passes: it is
\* scheduled again and again
SpecRadar == InitRadar /\ [][NextRadar]_vars /\ WF_vars(Tick)

\* the last line carried no target reading
NoTarget == radar_line # None /\ radar_line[1] # "reading"

\* C38: if from some point on the radar delivers only empty lines, malformed
\* lines and all-zero readings, the engagement state returns to IDLE in the
\* end and stays there.
C38_SilentRadarReturnsToIdle ==
    <>[]NoTarget => <>[](_state = IDLE)

\* C38 witness: the last line was an all-zero reading, the reader still holds
\* a distance within the engaged threshold, and the tick made after the last
\* in-range sample arrived has counted it as presence again and kept ENGAGED
C38_StaleReadingKeepsEngaged ==
    /\ radar_line = <<"zero">>
    /\ _latest = <<engaged_threshold_mm>>
    /\ _state = ENGAGED
    /\ tick_log.prev = ENGAGED
    /\ tick_log.computed = ENGAGED
    /\ _last_presence_ts = tick_log.ts
    /\ tick_log.ts = MaxTime

----------------------------------------------------------------------------
\* Sequence._run_loop step by step, against Sequence.stop.  One Sequence
\* (pos.role) of the approaching or the engaged kind drives one LED and its
\* motor.  pos.worker is where the worker stands: "top" at "while not
\* self._stop_event.is_set()", "fade_in" after that test found the event
\* clear, "asleep" in time.sleep(fade_in) + time.sleep(hold) until pos.until,
\* "tempo" in the chunked wait until pos.until, "exited" after the loop.
\* pos.stop is where the caller of stop() stands: "idle", "joining" since
\* pos.set_at, "returned".

fade_out_ms == 1000

min_brightness == 10

max_brightness == 128

\* next_led_delay = 0.7, in ms
next_led_delay_ms == 700

\* chunk = min(0.05, ...), in ms
sleep_chunk_ms == 50

WorkerRoles == {"approaching", "engaged"}

\* how long after the worker's last step stop() is called
StopDelays == {0, 100, 200, 600}

\* the move _drive_motors_for_leds / _drive_motor_for_led asks for
worker_move == [op |-> "move_to", arg |-> 100, duration_ms |-> 5000]

led_site(name) == CHOOSE s \in LedSites : s.site = name

InitWorker ==
    /\ InitBase({NoPersonality}, {FALSE})
    /\ fn = NoFn
    /\ RMS_GATE = 0
    /\ frame_ms = poll_interval_ms
    /\ say_threads = <<>>
    /\ leds = [a \in LedRegistered |-> LEDState]
    /\ motors = [a \in MotorRegistered |-> MotorState]
    /\ _last_cmd_time = 0
    /\ hw_call = NoHwCall
    /\ seq_call = <<>>
    /\ set_call = <<>>
    /\ radar_line = <<>>
    /\ \E r \in WorkerRoles :
         pos = [role |-> r, worker |-> "none", until |-> 0, stop |-> "idle",
                set_at |-> 0]

\* what the steps of one Sequence leave alone
worker_rest ==
    <<_state, radar_serial, radar_reader, _latest, _last_presence_ts, _thread,
      _stop_event, seq_orphans, _conversation_thread,
      _conversation_stop_event, handler, conv_orphans, _chat_messages,
      _quiet_until_ts, _system_prompt, _speech_rate, audio_vars, tick_log,
      dir_call, last_valid_sample_ts, fn, say_threads, seq_call, set_call,
      radar_line>>

\* Sequence.start() on the Sequence that is not running: LEDs to 0 over
\* 500 ms, event cleared, worker started
WorkerStart ==
    /\ pos.worker = "none"
    /\ \E q \in {seq_start(CurD.sequences[pos.role], FALSE)} :
         /\ seq_running' = [seq_running EXCEPT ![pos.role] = q.running]
         /\ seq_stop_event' = [seq_stop_event EXCEPT ![pos.role] = q.stop_event]
         /\ seq_thread' = [seq_thread EXCEPT ![pos.role] = q.thread]
    /\ leds' = all_leds_off(leds, 500, now)
    /\ pos' = [pos EXCEPT !.worker = "top"]
    /\ UNCHANGED <<now, motors, _last_cmd_time, hw_call, worker_rest>>

\* "while not self._stop_event.is_set()" (and, in the approaching sequence,
\* "if self._stop_event.is_set(): break" at the top of the for loop)
WorkerLoopTop ==
    /\ pos.worker = "top"
    /\ IF seq_stop_event[pos.role]
       THEN /\ seq_thread' = [seq_thread EXCEPT ![pos.role] = "dead"]
            /\ pos' = [pos EXCEPT !.worker = "exited"]
       ELSE /\ pos' = [pos EXCEPT !.worker = "fade_in"]
            /\ UNCHANGED seq_thread
    /\ UNCHANGED <<now, seq_running, seq_stop_event, leds, motors,
                   _last_cmd_time, hw_call, worker_rest>>

\* the motor move, if one is scheduled (drives), and the fade-in command;
\* then the worker goes to sleep for fade_in_ms + hold_ms.  The call record
\* is that of the LED command, the later of the two.
WorkerFadeIn ==
    /\ pos.worker = "fade_in"
    /\ hw_call.n < MaxCalls
    /\ \E drives \in BOOLEAN, address \in LedRegistered :
        \E m \in {IF drives
                  THEN MotorController_command(motors, _last_cmd_time, "B1",
                                               worker_move, now)
                  ELSE [motors |-> motors, last_cmd_time |-> _last_cmd_time,
                        at |-> now, raised |-> "none"]} :
        \E r \in {LEDController_set_brightness(leds, address, max_brightness,
                                               fade_in_ms, m.at)} :
           /\ now' = m.at
           /\ motors' = m.motors
           /\ _last_cmd_time' = m.last_cmd_time
           /\ leds' = r.leds
           /\ hw_call' = hw_called("led", led_site("fade_in"), address, r.raised)
           /\ pos' = [pos EXCEPT !.worker = "asleep",
                                 !.until = m.at + fade_in_ms + hold_ms(pos.role)]
    /\ UNCHANGED <<seq_running, seq_stop_event, seq_thread, worker_rest>>

\* a join that is pending runs out before t
join_due_before(t) ==
    pos.stop = "joining" /\ pos.set_at + join_timeout_ms < t

\* the two sleeps are over: the fade-out command, sent without a look at the
\* stop event; then the tempo wait begins
WorkerFadeOut ==
    /\ pos.worker = "asleep"
    /\ hw_call.n < MaxCalls
    /\ ~join_due_before(pos.until)
    /\ \E address \in LedRegistered :
        \E r \in {LEDController_set_brightness(leds, address, min_brightness,
                                               fade_out_ms, pos.until)} :
           /\ now' = pos.until
           /\ leds' = r.leds
           /\ hw_call' = hw_called("led", led_site("fade_out"), address, r.raised)
           /\ pos' = [pos EXCEPT !.worker = "tempo",
                                 !.until = pos.until + next_led_delay_ms]
    /\ UNCHANGED <<seq_running, seq_stop_event, seq_thread, motors,
                   _last_cmd_time, worker_rest>>

\* the end of the first chunk of the tempo wait that ends at or after t; the
\* wait began at until - next_led_delay_ms
chunk_end(until, t) ==
    LET begin == until - next_led_delay_ms
        k == (max({t, begin}) - begin + sleep_chunk_ms - 1) \div sleep_chunk_ms
    IN  min({until, begin + k * sleep_chunk_ms})

\* "while elapsed < self.next_led_delay and not self._stop_event.is_set()":
\* the wait ends after next_led_delay, or at the end of the chunk in which the
\* event was set
WorkerTempo ==
    /\ pos.worker = "tempo"
    /\ now' = IF seq_stop_event[pos.role]
              THEN max({now, chunk_end(pos.until, pos.set_at)})
              ELSE pos.until
    /\ pos' = [pos EXCEPT !.worker = "top"]
    /\ UNCHANGED <<seq_running, seq_stop_event, seq_thread, leds, motors,
                   _last_cmd_time, hw_call, worker_rest>>

\* Sequence.stop() up to the join: "self._stop_event.set()".  The call comes
\* dt after the worker's last step and, if the worker is waiting, not after
\* the end of its wait.
SeqStopCall ==
    /\ seq_running[pos.role]
    /\ pos.stop = "idle"
    /\ \E dt \in StopDelays :
         /\ \/ dt = 0
            \/ pos.worker \in {"asleep", "tempo"} /\ now + dt <= pos.until
         /\ now' = now + dt
         /\ pos' = [pos EXCEPT !.stop = "joining", !.set_at = now + dt]
    /\ seq_stop_event' = [seq_stop_event EXCEPT ![pos.role] = TRUE]
    /\ UNCHANGED <<seq_running, seq_thread, leds, motors, _last_cmd_time,
                   hw_call, worker_rest>>

\* "self._thread.join(timeout=1.0); self._running = False": the join ends
\* when the worker has exited, or after join_timeout_ms while the worker is
\* still in its two sleeps
SeqStopReturn ==
    /\ pos.stop = "joining"
    /\ \/ /\ pos.worker = "exited"
          /\ now' = now
       \/ /\ pos.worker = "asleep"
          /\ join_due_before(pos.until)
          /\ now' = pos.set_at + join_timeout_ms
    /\ seq_running' = [seq_running EXCEPT ![pos.role] = FALSE]
    /\ pos' = [pos EXCEPT !.stop = "returned"]
    /\ UNCHANGED <<seq_stop_event, seq_thread, leds, motors, _last_cmd_time,
                   hw_call, worker_rest>>

NextWorker ==
    \/ WorkerStart
    \/ WorkerLoopTop
    \/ WorkerFadeIn
    \/ WorkerFadeOut
    \/ WorkerTempo
    \/ SeqStopCall
    \/ SeqStopReturn

SpecWorker == InitWorker /\ [][NextWorker]_vars

\* C32: once the stop signal of a Sequence is set its worker issues no
\* further LED or motor command, and no command of a stopped Sequence is
\* issued after its stop() call has returned.
C32_NoCommandAfterStopSignal ==
    [][(hw_call' # hw_call /\ hw_call'.task = "worker")
          => /\ ~seq_stop_event[pos.role]
             /\ pos.stop # "returned"]_vars

\* the worker slept through the whole join: its fade-out command was sent
\* after stop() had returned, and the LED is left fading to min_brightness
C32_FadeOutAfterStopReturned ==
    /\ pos.stop = "returned"
    /\ pos.worker = "tempo"
    /\ hw_call.site = "fade_out"
    /\ ~seq_running[pos.role]
    /\ now > pos.set_at + join_timeout_ms
    /\ \E a \in DOMAIN leds : leds[a].brightness = min_brightness

----------------------------------------------------------------------------
\* One visit after another: the poller, the radar reader and the audio
\* callback of the conversation together.  The first visitor is engaged and
\* the input stream is open, as in InitConv, at the very start of the run so
\* that a second visit fits before MaxTime.

InitVisit ==
    /\ now = Epoch
    /\ _state = ENGAGED
    /\ radar_serial = TRUE
    /\ radar_reader = "present"
    /\ _latest = <<engaged_threshold_mm>>
    /\ _last_presence_ts = now
    /\ _thread = "alive"
    /\ _stop_event = FALSE
    /\ seq_running = [r \in Roles |-> r = "engaged"]
    /\ seq_stop_event = [r \in Roles |-> r = "idle"]
    /\ seq_thread = [r \in Roles |->
                        CASE r = "engaged" -> "alive"
                          [] r = "idle" -> "dead"
                          [] OTHER -> "none"]
    /\ seq_orphans = [r \in Roles |-> 0]
    /\ _conversation_thread = "running"
    /\ _conversation_stop_event = FALSE
    /\ handler = idle_handler
    /\ conv_orphans = <<>>
    /\ _personality_cfg = NoPersonality
    /\ _system_prompt = system_prompt_of(_personality_cfg)
    /\ _chat_messages =
           conv_prelude(_reset_chat_history(_system_prompt), _system_prompt)
    /\ _speech_rate = speech_rate_of(_personality_cfg)
    /\ _quiet_until_ts = 0
    /\ _in_speech = FALSE
    /\ _current_utt = 0
    /\ _rms_baseline = None
    /\ _pending_end_ts = None
    /\ cb = None
    /\ ExtInit
    /\ RMS_GATE = 0
    /\ frame_ms = 400
    /\ tick_log = [ts |-> now, prev |-> IDLE, computed |-> ENGAGED, ncalls |-> 1]
    /\ dir_call = [state |-> ENGAGED, prev |-> IDLE, committed |-> ENGAGED,
                   spoken |-> <<"greeting">>, raised |-> FALSE, flip |-> FALSE]
    /\ last_valid_sample_ts = now
    /\ fn = NoFn

\* frames the stream delivers in the visits followed
MaxVisitFrames == 2

\* time between the last step of any thread and a pass of the poller: a few
\* poll intervals, or a whole grace window
VisitSteps == {5 * poll_interval_ms, EXIT_GRACE_MS}

VisitTick ==
    \E dt \in VisitSteps, joined \in JoinOutcomes : TickBody(dt, joined, FALSE)

VisitFrame ==
    /\ last_cb.frame < MaxVisitFrames
    /\ AudioFrame

\* the Sequence workers hold no reference to the controller and are left out
NextVisit ==
    \/ RadarPoll
    \/ VisitTick
    \/ ConvLoopBegin
    \/ VisitFrame

SpecVisit == InitVisit /\ [][NextVisit]_vars

\* the conversation loop was started by an entry to ENGAGED from IDLE and
\* its stream is not open yet
loop_starts_after_idle ==
    /\ _conversation_thread = "starting"
    /\ dir_call.state = ENGAGED
    /\ dir_call.prev = IDLE

\* C37: whenever a conversation loop starts on entry to ENGAGED after an
\* IDLE re-entry, _in_speech is false, the utterance buffer is empty and no
\* pending-end timestamp is set.
C37_SegmenterFreshAtLoopStart ==
    loop_starts_after_idle
        => ~_in_speech /\ _current_utt = 0 /\ _pending_end_ts = None

\* the first visitor left in the middle of an utterance, the state went
\* through LEAVING and IDLE, and the loop started for the second visitor
\* finds the segmenter in speech with the first visitor's audio buffered
C37_LoopStartsMidUtterance ==
    /\ loop_starts_after_idle
    /\ _in_speech
    /\ _current_utt > 0
    /\ cb # None
    /\ cb[1].now_ts < tick_log.ts

----------------------------------------------------------------------------
\* EngagementController.stop() line by line, against a pass of the poller and
\* the Sequence workers.  pos.stop is where the caller of stop() stands:
\* "idle" before the call, then before "leds" (lines 244-252), "seqs"
\* (254-264), "motors" (266-274), "join" (276-278), and "returned".
\* pos.poller is where _loop stands: "top" at "while not
\* self._stop_event.is_set()", "read" after the test found the event clear,
\* "director" between set_state and _apply_led_behavior_for (pos.prev and
\* pos.new are the arguments of that call), "exited" after the loop.

\* the move stop() asks of every motor: move_to(addr, "CW", 0, 1000)
home_move == [op |-> "move_to", arg |-> 0, duration_ms |-> 1000]

\* the fade-in and the fade-out command of a Sequence worker
WorkerCommands ==
    {[site |-> "fade_in", brightness |-> max_brightness,
      duration_ms |-> fade_in_ms],
     [site |-> "fade_out", brightness |-> min_brightness,
      duration_ms |-> fade_out_ms]}

\* controller.start() has run in the state after construction: the idle
\* Sequence is running and has set the LEDs to 0 over 500 ms, the radar reader
\* and the poller are started
InitStop ==
    /\ now = Epoch
    /\ _state = IDLE
    /\ radar_serial = TRUE
    /\ radar_reader = "present"
    /\ _latest = None
    /\ _last_presence_ts = 0
    /\ _thread = "alive"
    /\ _stop_event = FALSE
    /\ seq_running = [r \in Roles |-> r = "idle"]
    /\ seq_stop_event = [r \in Roles |-> FALSE]
    /\ seq_thread = [r \in Roles |-> IF r = "idle" THEN "alive" ELSE "none"]
    /\ seq_orphans = [r \in Roles |-> 0]
    /\ _conversation_thread = "none"
    /\ _conversation_stop_event = FALSE
    /\ handler = idle_handler
    /\ conv_orphans = <<>>
    /\ _personality_cfg = NoPersonality
    /\ _system_prompt = system_prompt_of(_personality_cfg)
    /\ _speech_rate = default_rate
    /\ _in_speech = FALSE
    /\ _current_utt = 0
    /\ _rms_baseline = None
    /\ _pending_end_ts = None
    /\ cb = None
    /\ _chat_messages = _reset_chat_history(_system_prompt)
    /\ _quiet_until_ts = 0
    /\ tick_log = NoTick
    /\ dir_call = [state |-> IDLE, prev |-> "NONE", committed |-> IDLE,
                   spoken |-> <<>>, raised |-> FALSE, flip |-> TRUE]
    /\ last_valid_sample_ts = 0
    /\ fn = NoFn
    /\ RMS_GATE = 0
    /\ frame_ms = poll_interval_ms
    /\ say_threads = <<>>
    /\ leds = all_leds_off([a \in LedRegistered |-> LEDState], 500, Epoch)
    /\ motors = [a \in MotorRegistered |-> MotorState]
    /\ _last_cmd_time = 0
    /\ hw_call = NoHwCall
    /\ seq_call = <<>>
    /\ set_call = <<>>
    /\ radar_line = <<>>
    /\ pos = [stop |-> "idle", poller |-> "top", prev |-> IDLE, new |-> IDLE]

\* what neither stop() nor the poller nor a worker writes
stop_rest ==
    <<radar_serial, radar_reader, _quiet_until_ts, _system_prompt,
      _speech_rate, audio_vars, fn, say_threads, seq_call, set_call,
      radar_line>>

seq_vars == <<seq_running, seq_stop_event, seq_thread, seq_orphans>>

conv_vars ==
    <<_conversation_thread, _conversation_stop_event, handler, conv_orphans,
      _chat_messages>>

poller_vars == <<_state, _last_presence_ts, tick_log, dir_call,
                 last_valid_sample_ts>>

hw_vars == <<leds, motors, _last_cmd_time, hw_call>>

\* line 286, reached dt after the last pass began its sleep: the loop ends
\* if the event is set, another pass begins if it is clear
PollerTest ==
    /\ pos.poller = "top"
    /\ IF _stop_event
       THEN /\ pos' = [pos EXCEPT !.poller = "exited"]
            /\ _thread' = IF _thread = "alive" THEN "dead" ELSE _thread
            /\ UNCHANGED now
       ELSE \E dt \in TickSteps :
               /\ now + dt <= MaxTime
               /\ now' = now + dt
               /\ pos' = [pos EXCEPT !.poller = "read"]
               /\ UNCHANGED _thread
    /\ UNCHANGED <<_latest, _stop_event, seq_vars, conv_vars, poller_vars,
                   hw_vars, stop_rest>>

\* lines 293-304: the reading, the presence clock, the new state, set_state
PollerRead ==
    /\ pos.poller = "read"
    /\ LET distance == _latest
           presence == counts_as_presence(distance)
           last == IF presence THEN now ELSE _last_presence_ts
           prev_state == _state
           new_state == _determine_state(distance, prev_state, now, last)
           changed == state_changed(new_state, prev_state)
       IN  /\ _last_presence_ts' = last
           /\ last_valid_sample_ts' = IF presence THEN now
                                      ELSE last_valid_sample_ts
           /\ _state' = IF changed THEN set_state(prev_state, new_state)
                        ELSE _state
           /\ tick_log' = [ts |-> now, prev |-> prev_state,
                           computed |-> new_state,
                           ncalls |-> IF changed THEN 1 ELSE 0]
           /\ pos' = IF changed
                     THEN [pos EXCEPT !.poller = "director",
                                      !.prev = prev_state, !.new = new_state]
                     ELSE [pos EXCEPT !.poller = "top"]
    /\ UNCHANGED <<now, _latest, _thread, _stop_event, seq_vars, conv_vars,
                   dir_call, hw_vars, stop_rest>>

\* line 305: the director; the Sequence it starts sets every LED to 0 over
\* 500 ms before its worker runs
PollerDirector ==
    /\ pos.poller = "director"
    /\ \E joined \in JoinOutcomes :
         \E D \in {_apply_led_behavior_for(CurD, pos.new, pos.prev, joined,
                                           FALSE)} :
            /\ Commit(D)
            /\ dir_call' = called(D, pos.new, pos.prev, _state)
            /\ leds' = IF \E r \in Roles :
                              D.sequences[r].running /\ ~seq_running[r]
                       THEN all_leds_off(leds, 500, now)
                       ELSE leds
    /\ pos' = [pos EXCEPT !.poller = "top"]
    /\ UNCHANGED <<now, _latest, _thread, _stop_event, _state,
                   _last_presence_ts, tick_log, last_valid_sample_ts, motors,
                   _last_cmd_time, hw_call, stop_rest>>

\* a worker that found its stop event clear sends its next command (the
\* commands sent before stop() is called are not followed)
WorkerCommand ==
    /\ hw_call.n < MaxCalls
    /\ pos.stop # "idle"
    /\ \E r \in Roles, c \in WorkerCommands, address \in LedRegistered :
         /\ seq_thread[r] = "alive"
         /\ ~seq_stop_event[r]
         /\ \E R \in {LEDController_set_brightness(leds, address, c.brightness,
                                                   c.duration_ms, now)} :
              /\ leds' = R.leds
              /\ hw_call' = hw_called("led", led_site(c.site), address, R.raised)
    /\ UNCHANGED <<now, _latest, _thread, _stop_event, seq_vars, conv_vars,
                   poller_vars, motors, _last_cmd_time, pos, stop_rest>>

\* lines 236-242: the stop event is set and the conversation stopped
StopSignal ==
    /\ pos.stop = "idle"
    /\ _thread # "none"
    /\ _stop_event' = TRUE
    /\ Commit([CurD EXCEPT !.conv = _stop_conversation(@, _system_prompt)])
    /\ pos' = [pos EXCEPT !.stop = "leds"]
    /\ UNCHANGED <<now, _latest, _thread, poller_vars, hw_vars, stop_rest>>

\* lines 244-252: set_brightness(addr, 0, 1000) for every LED
StopLedsOff ==
    /\ pos.stop = "leds"
    /\ leds' = all_leds_off(leds, 1000, now)
    /\ hw_call' = hw_called("led", led_site("stop"), "B0", "none")
    /\ pos' = [pos EXCEPT !.stop = "seqs"]
    /\ UNCHANGED <<now, _latest, _thread, _stop_event, seq_vars, conv_vars,
                   poller_vars, motors, _last_cmd_time, stop_rest>>

\* lines 254-264: stop() of each Sequence that is running
StopSequences ==
    /\ pos.stop = "seqs"
    /\ \E joined \in JoinOutcomes :
         Commit([CurD EXCEPT !.sequences = seq_stop_each(
                     @, <<"idle", "approaching", "engaged", "leaving">>,
                     joined)])
    /\ pos' = [pos EXCEPT !.stop = "motors"]
    /\ UNCHANGED <<now, _latest, _thread, _stop_event, poller_vars, hw_vars,
                   stop_rest>>

\* lines 266-274: every motor is sent home
StopMotors ==
    /\ pos.stop = "motors"
    /\ \E R \in {MotorController_command(motors, _last_cmd_time, "B1",
                                         home_move, now)} :
         /\ now' = R.at
         /\ motors' = R.motors
         /\ _last_cmd_time' = R.last_cmd_time
    /\ pos' = [pos EXCEPT !.stop = "join"]
    /\ UNCHANGED <<_latest, _thread, _stop_event, seq_vars, conv_vars,
                   poller_vars, leds, hw_call, stop_rest>>

\* lines 276-278: the join ends when the poller has left its loop and the
\* handle is dropped.  A pass of the poller outlasts join_timeout_ms only
\* inside the joins of the director, and stop() has waited through the same
\* joins in lines 242 and 254-264: the join is taken not to run out.
StopJoin ==
    /\ pos.stop = "join"
    /\ pos.poller = "exited"
    /\ _thread' = "none"
    /\ pos' = [pos EXCEPT !.stop = "returned"]
    /\ UNCHANGED <<now, _latest, _stop_event, seq_vars, conv_vars,
                   poller_vars, hw_vars, stop_rest>>

\* the radar reader stores a reading: somebody close, or nobody in range
StopRadar ==
    /\ RadarPoll
    /\ _latest' # _latest
    /\ _latest' \in {<<engaged_threshold_mm>>, <<idle_threshold_mm + 1>>}

NextStop ==
    \/ PollerTest
    \/ PollerRead
    \/ PollerDirector
    \/ WorkerCommand
    \/ StopSignal
    \/ StopLedsOff
    \/ StopSequences
    \/ StopMotors
    \/ StopJoin
    \/ StopRadar
    \/ ConvLoopBegin

SpecStop == InitStop /\ [][NextStop]_vars

\* C31: after EngagementController.stop() has returned no Sequence is
\* running, no conversation loop is running, the last brightness commanded to
\* every LED is 0, and the poller makes no further state transition and no
\* further call of the director.
C31_StoppedMeansAllOff ==
    /\ [](pos.stop = "returned"
            => /\ \A r \in Roles : ~seq_running[r]
               /\ _conversation_thread = "none"
               /\ \A a \in DOMAIN leds : leds[a].brightness = 0)
    /\ [][pos.stop = "returned"
            => _state' = _state /\ dir_call' = dir_call]_vars

\* stop() has returned and the poller has left its loop, but the pass that
\* was under way when stop() set the event has committed ENGAGED since: the
\* engaged Sequence and the conversation loop were started after stop()
\* stopped them, and a worker has lit an LED
C31_StartedBehindStop ==
    /\ pos.stop = "returned"
    /\ pos.poller = "exited"
    /\ _state = ENGAGED
    /\ seq_running["engaged"]
    /\ seq_thread["engaged"] = "alive"
    /\ _conversation_thread = "running"
    /\ \E a \in DOMAIN leds : leds[a].brightness > 0

====
